---- MODULE Spec2Model ----
(***************************************************************************)
(* Model of piranha::hash_set (src/src/hash_set.hpp): a separate-chaining  *)
(* hash table whose buckets are singly linked lists with the first node    *)
(* embedded in the bucket array.                                           *)
(*                                                                         *)
(* A table is a record [m_container, m_n_elements].  m_container is a      *)
(* function from 0..bucket_count-1 to a bucket; a bucket is the sequence   *)
(* of the keys of its chain, element 1 being the payload of the embedded   *)
(* node m_node and elements 2.. the heap nodes in link order.  A node      *)
(* pointer of a bucket is its position in the chain (1 = &m_node); 0 is    *)
(* the null pointer and -1 the address of the static list::terminator.     *)
(***************************************************************************)
EXTENDS Integers, Sequences, FiniteSets, TLC

VARIABLES set, other, last, status, threads, forked, num, arith,
          s_parallel_memory_set, s_mult_block_size, tuned, passed, loop, read

vars == <<set, other, last, status, threads, forked, num, arith,
          s_parallel_memory_set, s_mult_block_size, tuned, passed, loop, read>>

\* The state of the threads that fill `set' through the low-level interface.
thread_vars == <<threads, forked>>

\* A hybrid integer of the calling program and its last operation.
int_vars == <<num, arith>>

\* The globals of piranha::tuning (src/src/tuning.hpp), the last call of a
\* method of the class, and the arguments that its setters have stored.
tuning_vars == <<s_parallel_memory_set, s_mult_block_size, tuned, passed>>

\* The loop of a program that erases while it iterates over `set', and the
\* last call of read_uint().
aux_vars == <<loop, read>>

(***************************************************************************)
(* Bounds of the model.                                                    *)
(***************************************************************************)
\* Keys are 1..MaxKey.
MaxKey == 4
\* Number of entries of the size-class table that the model keeps.
NSizes == 3
\* Width in bits of the (scaled-down) size_type.
SizeTypeBits == 5
\* Largest number of nodes in a table that the low-level interface fills.
MaxStored == 2
\* Number of threads that call _unique_insert() concurrently.
NThreads == 2
\* Width in bits of a limb of the (scaled-down) static integer.
LimbBits == 1
\* Largest magnitude of the (scaled-down) native integers.
NativeMax == 2
\* Distance from the limits of the block size of the sizes that are tried.
Margin == 1
\* Width in bits of the (scaled-down) unsigned char.
CharBits == 2
\* Width in bits of the (scaled-down) unsigned long long.
LongBits == 3
\* Number of output values that the input vector of the calling program
\* can hold at least.
Few == 1
\* Largest number of ignored bits that the calling program asks for.
MaxIgnore == 1

Keys == 1..MaxKey

RECURSIVE Pow2(_)
Pow2(n) ==
    IF n = 0 THEN 1 ELSE 2 * Pow2(n - 1)

\* boost::integer_traits<size_type>::const_max
const_max ==
    Pow2(SizeTypeBits) - 1

\* The hasher functor (a template parameter): one with collisions, so that
\* chains of three nodes exist in a table of three buckets.
m_hasher(k) ==
    IF k <= 3 THEN 3 * k ELSE k

\* The equality functor (std::equal_to).
m_key_equal(a, b) ==
    a = b

\* The leading entries of hash_set::table_sizes.
all_table_sizes ==
    <<0, 1, 3, 5, 11, 23, 53, 97, 193, 389, 769, 1543, 3079, 6151, 12289,
      24593, 49157, 98317, 196613, 393241, 786433, 1572869, 3145739>>

n_available_sizes ==
    NSizes

table_sizes ==
    [i \in 0..(n_available_sizes - 1) |-> all_table_sizes[i + 1]]

\* The largest size class.
MaxBuckets ==
    table_sizes[n_available_sizes - 1]

get_max_load_factor ==
    1

(***************************************************************************)
(* Pointers and iterators.                                                 *)
(***************************************************************************)
nullptr == 0

terminator == -1

\* hash_set::iterator_impl: (m_set is implicit), m_idx, m_it.
Iterator(idx, ptr) ==
    [m_idx |-> idx, m_it |-> ptr]

\* The value of `ret' when a call returns no iterator.
NoIt ==
    [m_idx |-> -1, m_it |-> nullptr]

hash_set_default ==
    [m_container |-> <<>>, m_n_elements |-> 0]

\* std::vector<list>(n): n empty lists.
container_type(n) ==
    [i \in 0..(n - 1) |-> <<>>]

bucket_count(t) ==
    Cardinality(DOMAIN t.m_container)

size(t) ==
    t.m_n_elements

\* list::begin()
list_begin(b) ==
    1

\* list::end(): the terminator, or &m_node when the list is empty.
list_end(b) ==
    IF b # <<>> THEN terminator ELSE 1

\* list::empty()
list_empty(b) ==
    b = <<>>

\* hash_set::end()
end(t) ==
    Iterator(bucket_count(t), nullptr)

\* The first non-empty bucket at or after idx, or bucket_count().
next_nonempty(t, idx) ==
    LET cand == {i \in idx..(bucket_count(t) - 1) : ~list_empty(t.m_container[i])}
    IN  IF cand = {} THEN bucket_count(t)
        ELSE CHOOSE i \in cand : \A j \in cand : i <= j

\* A begin() that does not skip the empty buckets.
begin_first_bucket(t) ==
    IF bucket_count(t) # 0 THEN Iterator(0, list_begin(t.m_container[0]))
    ELSE Iterator(0, nullptr)

\* hash_set::begin() / _m_begin()
begin(t) ==
    LET idx == next_nonempty(t, 0)
    IN  IF idx # bucket_count(t) THEN Iterator(idx, list_begin(t.m_container[idx]))
        ELSE Iterator(idx, nullptr)

\* The elements of the table in the order of a traversal from begin() to
\* end(): buckets by index, each chain from its head.
RECURSIVE traverse_from(_, _)
traverse_from(t, idx) ==
    IF idx >= bucket_count(t) THEN <<>>
    ELSE t.m_container[idx] \o traverse_from(t, idx + 1)

traversal(t) ==
    traverse_from(t, 0)

\* The keys stored in the buckets of a table.
Elements(t) ==
    {traversal(t)[j] : j \in 1..Len(traversal(t))}

\* The number of nodes that hold a key.
StoredCount(t) ==
    Len(traversal(t))

\* iterator_impl::increment()
increment(t, it) ==
    IF it.m_it + 1 <= Len(t.m_container[it.m_idx]) THEN Iterator(it.m_idx, it.m_it + 1)
    ELSE LET idx == next_nonempty(t, it.m_idx + 1)
         IN  IF idx = bucket_count(t) THEN Iterator(idx, nullptr)
             ELSE Iterator(idx, list_begin(t.m_container[idx]))

\* iterator_impl::dereference()
dereference(t, it) ==
    t.m_container[it.m_idx][it.m_it]

(***************************************************************************)
(* Low-level interface.                                                    *)
(***************************************************************************)
\* hash_set::_bucket(); the caller checks bucket_count() != 0.
_bucket(t, k) ==
    m_hasher(k) % bucket_count(t)

\* A lookup that compares the key with the head of the bucket only.
_find_head_only(t, k, bucket_idx) ==
    LET b == t.m_container[bucket_idx]
    IN  IF b # <<>> /\ m_key_equal(b[1], k) THEN Iterator(bucket_idx, 1) ELSE end(t)

\* hash_set::_find()
_find(t, k, bucket_idx) ==
    LET b == t.m_container[bucket_idx]
        hits == {p \in 1..Len(b) : m_key_equal(b[p], k)}
    IN  IF hits = {} THEN end(t)
        ELSE Iterator(bucket_idx, CHOOSE p \in hits : \A q \in hits : p <= q)

\* A list::insert() that links the new node at the end of the chain.
list_insert_back(b, item) ==
    [list |-> Append(b, item), ptr |-> Len(b) + 1]

\* list::insert(): the new node becomes the head of an empty list, else the
\* second node.  The result is the list and the pointer to the new node.
list_insert(b, item) ==
    IF b # <<>> THEN [list |-> <<Head(b), item>> \o Tail(b), ptr |-> 2]
    ELSE [list |-> <<item>>, ptr |-> 1]

\* The steps of list::insert() that read or write the bucket, for a thread
\* th = [pc, k, bucket_idx, m_next] that runs _unique_insert(k, bucket_idx)
\* on table t.  m_next is the thread's copy of m_node.m_next: the chain
\* behind the head.
\* if (m_node.m_next)
list_insert_test(t, th) ==
    ~list_empty(t.m_container[th.bucket_idx])

\* new_node->m_next = m_node.m_next
list_insert_read_next(t, th) ==
    Tail(t.m_container[th.bucket_idx])

\* A link step that also increments the element count of the table.
list_insert_link_counting(t, th) ==
    [t EXCEPT !.m_container[th.bucket_idx] = <<Head(@), th.k>> \o th.m_next,
              !.m_n_elements = @ + 1]

\* m_node.m_next = new_node.release()
list_insert_link(t, th) ==
    [t EXCEPT !.m_container[th.bucket_idx] = <<Head(@), th.k>> \o th.m_next]

\* ::new (&m_node.m_storage) T(item); m_node.m_next = &terminator
list_insert_head(t, th) ==
    [t EXCEPT !.m_container[th.bucket_idx] = <<th.k>>]

\* A _unique_insert() that increments the element count, as insert() does.
_unique_insert_counting(t, k, bucket_idx) ==
    LET r == list_insert(t.m_container[bucket_idx], k)
    IN  [t |-> [t EXCEPT !.m_container[bucket_idx] = r.list, !.m_n_elements = @ + 1],
         ret |-> Iterator(bucket_idx, r.ptr)]

\* hash_set::_unique_insert()
_unique_insert(t, k, bucket_idx) ==
    LET r == list_insert(t.m_container[bucket_idx], k)
    IN  [t |-> [t EXCEPT !.m_container[bucket_idx] = r.list],
         ret |-> Iterator(bucket_idx, r.ptr)]

\* An _update_size() that leaves the count as it is.
_update_size_ignored(t, new_size) ==
    t

\* hash_set::_update_size()
_update_size(t, new_size) ==
    [t EXCEPT !.m_n_elements = new_size]

\* hash_set::clear()
clear(t) ==
    [m_container |-> <<>>, m_n_elements |-> 0]

\* hash_set::get_size_index()
get_size_index(t) ==
    CHOOSE i \in DOMAIN table_sizes : table_sizes[i] = bucket_count(t)

\* A get_size_from_hint() that takes the hint as the number of buckets.
get_size_from_hint_exact(hint) ==
    IF hint > table_sizes[n_available_sizes - 1] THEN -1 ELSE hint

\* hash_set::get_size_from_hint(): -1 stands for throwing std::bad_alloc.
get_size_from_hint(hint) ==
    LET cand == {i \in DOMAIN table_sizes : table_sizes[i] >= hint}
    IN  IF cand = {} THEN -1
        ELSE table_sizes[CHOOSE i \in cand : \A j \in cand : i <= j]

\* An index computed with _bucket() of the old table instead of the new one.
rehash_new_idx_old_table(t, new_table, k) ==
    _bucket(t, k)

\* The index that the loop of rehash() computes for an element of table t.
rehash_new_idx(t, new_table, k) ==
    _bucket(new_table, k)

\* The loop of rehash(): every element of the old table, in traversal
\* order, is placed in the new table at its index for the new bucket count.
RECURSIVE rehash_loop(_, _, _)
rehash_loop(t, es, new_table) ==
    IF es = <<>> THEN new_table
    ELSE LET new_idx == rehash_new_idx(t, new_table, Head(es))
         IN  rehash_loop(t, Tail(es), _unique_insert(new_table, Head(es), new_idx).t)

\* A catch block that clears the new table only.
rehash_catch_new_only(t, new_table) ==
    [t |-> t, res |-> "loop_throws"]

\* The catch block of rehash(): this table and the new table are cleared
\* and the exception propagates.
rehash_catch(t, new_table) ==
    [t |-> clear(t), res |-> "loop_throws"]

\* hash_set::rehash().  fail names the step that throws: "new_table" (the
\* construction of the new table), "loop" (_bucket or _unique_insert in the
\* loop), or "none".  res is "ok", the exception that propagates
\* ("bad_alloc", "new_table_throws", "loop_throws"), or "ub" when the loop
\* computes a bucket index in a new table of zero buckets.
rehash(t, new_size, fail) ==
    IF get_size_from_hint(new_size) = -1 THEN [t |-> t, res |-> "bad_alloc"]
    ELSE IF fail = "new_table" THEN [t |-> t, res |-> "new_table_throws"]
    ELSE LET new_table == [m_container |-> container_type(get_size_from_hint(new_size)),
                           m_n_elements |-> 0]
             es == traversal(t)
         IN  IF es # <<>> /\ bucket_count(new_table) = 0 THEN [t |-> t, res |-> "ub"]
             ELSE IF es # <<>> /\ fail = "loop" THEN rehash_catch(t, new_table)
             ELSE [t |-> [m_container |-> rehash_loop(t, es, new_table).m_container,
                          m_n_elements |-> t.m_n_elements],
                   res |-> "ok"]

\* An _increase_size() whose test of the last size class never succeeds.
_increase_size_no_ceiling(t, fail) ==
    LET cur_size_index == get_size_index(t)
    IN  rehash(t, table_sizes[IF cur_size_index = n_available_sizes - 1
                              THEN cur_size_index ELSE cur_size_index + 1], fail)

\* hash_set::_increase_size()
_increase_size(t, fail) ==
    LET cur_size_index == get_size_index(t)
    IN  IF cur_size_index = n_available_sizes - 1 THEN [t |-> t, res |-> "bad_alloc"]
        ELSE rehash(t, table_sizes[cur_size_index + 1], fail)

\* The nodes of a bucket whose chain holds the keys b: the embedded node
\* m_node and the heap nodes, the node of position a at the address a.  A
\* node is [m_storage, m_next]; the payload of an empty m_node is 0.
list_nodes(b) ==
    [m_node |-> [m_storage |-> IF b = <<>> THEN 0 ELSE b[1],
                 m_next |-> IF b = <<>> THEN nullptr
                            ELSE IF Len(b) = 1 THEN terminator ELSE 2],
     heap |-> [a \in 2..Len(b) |->
                  [m_storage |-> b[a],
                   m_next |-> IF a = Len(b) THEN terminator ELSE a + 1]]]

\* The keys of the chain of a bucket, from m_node along the links.
RECURSIVE chain_from(_, _)
chain_from(l, ptr) ==
    IF ptr = terminator THEN <<>>
    ELSE <<l.heap[ptr].m_storage>> \o chain_from(l, l.heap[ptr].m_next)

list_keys(l) ==
    IF l.m_node.m_next = nullptr THEN <<>>
    ELSE <<l.m_node.m_storage>> \o chain_from(l, l.m_node.m_next)

\* hash_set::_erase() of the first element of a bucket, on the nodes: the
\* payload of m_node is destroyed; the only node is marked empty, else the
\* payload of the second node is moved into m_node, the second node is
\* deleted and m_node is linked to the third.
_erase_head(l) ==
    IF l.m_node.m_next = terminator
    THEN [l EXCEPT !.m_node = [m_storage |-> 0, m_next |-> nullptr]]
    ELSE LET second == l.m_node.m_next
             tmp == l.heap[second].m_next
         IN  [m_node |-> [m_storage |-> l.heap[second].m_storage, m_next |-> tmp],
              heap |-> [a \in DOMAIN l.heap \ {second} |-> l.heap[a]]]

\* An _erase() that moves the second payload into the first node and leaves
\* the second node in the chain.
_erase_second_kept(t, it) ==
    LET bucket == t.m_container[it.m_idx]
        p == it.m_it
    IN  IF p = 1
        THEN IF Len(bucket) = 1
             THEN [list |-> <<>>, ret |-> list_end(<<>>)]
             ELSE [list |-> <<bucket[2]>> \o Tail(bucket),
                   ret |-> list_begin(bucket)]
        ELSE [list |-> SubSeq(bucket, 1, p - 1) \o SubSeq(bucket, p + 1, Len(bucket)),
              ret |-> IF p = Len(bucket) THEN list_end(bucket) ELSE p - 1]

\* hash_set::_erase(): the bucket after the erase and the local iterator
\* that the code returns.
_erase(t, it) ==
    LET bucket == t.m_container[it.m_idx]
        p == it.m_it
    IN  IF p = 1
        THEN IF Len(bucket) = 1
             THEN [list |-> <<>>, ret |-> list_end(<<>>)]
             ELSE [list |-> Tail(bucket), ret |-> list_begin(Tail(bucket))]
        ELSE LET new_list == SubSeq(bucket, 1, p - 1) \o SubSeq(bucket, p + 1, Len(bucket))
                 tmp == p - 1
                 b_it_f == list_end(bucket)
                 \* ++prev_b_it, after prev's link was set to the erased node's link
                 prev_next == IF p <= Len(new_list) THEN p ELSE terminator
             IN  [list |-> new_list,
                  ret |-> IF prev_next = b_it_f THEN b_it_f ELSE tmp]

(***************************************************************************)
(* Public interface.                                                       *)
(***************************************************************************)
\* A find() that looks the key up in the first bucket.
find_first_bucket(t, k) ==
    IF bucket_count(t) = 0 THEN end(t) ELSE _find(t, k, 0)

\* hash_set::find()
find(t, k) ==
    IF bucket_count(t) = 0 THEN end(t) ELSE _find(t, k, _bucket(t, k))

Result(t, res, ret, inserted) ==
    [t |-> t, res |-> res, ret |-> ret, inserted |-> inserted]

\* A test of the load factor with the count before the insertion.
load_factor_exceeded_before(t) ==
    t.m_n_elements > bucket_count(t) * get_max_load_factor

\* The test of insert() for a rehash because of the load factor.
load_factor_exceeded(t) ==
    t.m_n_elements + 1 > bucket_count(t) * get_max_load_factor

\* An end of insert() that increments the count before _unique_insert().
insert_place_count_first(t, k, bucket_idx, fail) ==
    IF fail = "node" THEN Result([t EXCEPT !.m_n_elements = @ + 1], "node_throws", NoIt, FALSE)
    ELSE LET u == _unique_insert(t, k, bucket_idx)
         IN  Result([u.t EXCEPT !.m_n_elements = @ + 1], "ok", u.ret, TRUE)

\* The end of insert(): _unique_insert() and the increment of the count.
insert_place(t, k, bucket_idx, fail) ==
    IF fail = "node" THEN Result(t, "node_throws", NoIt, FALSE)
    ELSE LET u == _unique_insert(t, k, bucket_idx)
         IN  Result([u.t EXCEPT !.m_n_elements = @ + 1], "ok", u.ret, TRUE)

\* The tail of insert(), for a key that was not found: the overflow check,
\* the growth because of the load factor with the new bucket index, and the
\* insertion.
insert_new(t, k, bucket_idx, fail) ==
    IF t.m_n_elements = const_max THEN Result(t, "overflow_error", NoIt, FALSE)
    ELSE IF ~load_factor_exceeded(t) THEN insert_place(t, k, bucket_idx, fail)
    ELSE LET g == _increase_size(t, CASE fail = "grow_new_table" -> "new_table"
                                      [] fail = "grow_loop" -> "loop"
                                      [] OTHER -> "none")
         IN  IF g.res # "ok" THEN Result(g.t, g.res, NoIt, FALSE)
             ELSE IF fail = "rehash_hash" THEN Result(g.t, "hash_throws", NoIt, FALSE)
             ELSE insert_place(g.t, k, _bucket(g.t, k), fail)

\* A head of insert() that grows the table for the load factor before it
\* looks the key up.
insert_lookup_grow_first(t, k, fail) ==
    LET g == IF load_factor_exceeded(t) THEN _increase_size(t, "none")
             ELSE [t |-> t, res |-> "ok"]
        t1 == IF g.res = "ok" THEN g.t ELSE t
        bucket_idx == _bucket(t1, k)
        it == _find(t1, k, bucket_idx)
    IN  IF it # end(t1) THEN Result(t1, "ok", it, FALSE)
        ELSE insert_place(t1, k, bucket_idx, fail)

\* The head of insert(), on a table with buckets: the lookup of the key.
insert_lookup(t, k, fail) ==
    IF fail = "hash" THEN Result(t, "hash_throws", NoIt, FALSE)
    ELSE LET bucket_idx == _bucket(t, k)
             it == _find(t, k, bucket_idx)
         IN  IF fail = "equal" /\ ~list_empty(t.m_container[bucket_idx])
             THEN Result(t, "equal_throws", NoIt, FALSE)
             ELSE IF it # end(t) THEN Result(t, "ok", it, FALSE)
             ELSE insert_new(t, k, bucket_idx, fail)

\* hash_set::insert().  fail names the step that throws, if any.
insert(t, k, fail) ==
    LET g == IF bucket_count(t) = 0
             THEN _increase_size(t, IF fail = "grow0_new_table" THEN "new_table" ELSE "none")
             ELSE [t |-> t, res |-> "ok"]
    IN  IF g.res # "ok" THEN Result(g.t, g.res, NoIt, FALSE)
        ELSE insert_lookup(g.t, k, fail)

\* An erase() that does not decrement the element count.
erase_keep_count(t, it) ==
    LET e == _erase(t, it)
    IN  Result([t EXCEPT !.m_container[it.m_idx] = e.list], "ok", NoIt, FALSE)

\* An erase() that returns the position behind the following element.
erase_skipping(t, it) ==
    LET e == _erase(t, it)
        t1 == [t EXCEPT !.m_container[it.m_idx] = e.list]
        following == IF e.ret = list_end(t1.m_container[it.m_idx])
                     THEN increment(t1, Iterator(it.m_idx, Len(e.list)))
                     ELSE Iterator(it.m_idx, e.ret)
    IN  Result([t1 EXCEPT !.m_n_elements = @ - 1], "ok",
               IF following = end(t1) THEN following ELSE increment(t1, following), FALSE)

\* hash_set::erase()
erase(t, it) ==
    LET e == _erase(t, it)
        b_it == e.ret
        t1 == [t EXCEPT !.m_container[it.m_idx] = e.list]
        retval == IF b_it = list_end(t1.m_container[it.m_idx])
                  THEN LET idx == next_nonempty(t1, it.m_idx + 1)
                       IN  IF idx # bucket_count(t1)
                           THEN Iterator(idx, list_begin(t1.m_container[idx]))
                           ELSE Iterator(idx, nullptr)
                  ELSE Iterator(it.m_idx, b_it)
    IN  Result([t1 EXCEPT !.m_n_elements = @ - 1], "ok", retval, FALSE)

\* Calls of _increase_size() until the table has at least n buckets.
RECURSIVE increase_to(_, _)
increase_to(t, n) ==
    IF bucket_count(t) >= n THEN [t |-> t, res |-> "ok"]
    ELSE LET g == _increase_size(t, "none")
         IN  IF g.res # "ok" THEN g ELSE increase_to(g.t, n)

\* The pre-sizing of a bulk load, with rehash() or with _increase_size().
presize(t, n, how) ==
    IF bucket_count(t) >= n THEN [t |-> t, res |-> "ok"]
    ELSE IF how = "rehash" THEN rehash(t, n, "none")
    ELSE increase_to(t, n)

\* _unique_insert(k, _bucket(k)) for the keys of a sequence, in its order.
RECURSIVE unique_inserts(_, _)
unique_inserts(t, keys) ==
    IF keys = <<>> THEN t
    ELSE unique_inserts(_unique_insert(t, Head(keys), _bucket(t, Head(keys))).t, Tail(keys))

\* The bulk load of the keys of a sequence: the pre-sizing, the unchecked
\* insertions and the update of the count at the end.  A failure of the
\* pre-sizing ends it.
bulk_load(t, keys, how) ==
    LET s == size(t)
        m == Len(keys)
        sized == presize(t, s + m, how)
    IN  IF sized.res # "ok" THEN Result(sized.t, sized.res, NoIt, FALSE)
        ELSE Result(_update_size(unique_inserts(sized.t, keys), s + m), "ok", NoIt, FALSE)

\* hash_set(const hash_set &): copies the buckets and the element count.
copy_construct(src, fail) ==
    IF fail = "copy" THEN [t |-> hash_set_default, res |-> "copy_throws"]
    ELSE [t |-> [m_container |-> src.m_container, m_n_elements |-> src.m_n_elements],
          res |-> "ok"]

\* hash_set::operator=(hash_set &&): the pair (this, other) afterwards.
move_assign(dst, src) ==
    [dst |-> [m_container |-> src.m_container, m_n_elements |-> src.m_n_elements],
     src |-> clear(src)]

\* hash_set::operator=(const hash_set &)
copy_assign(dst, src, fail) ==
    LET tmp == copy_construct(src, fail)
    IN  IF tmp.res # "ok" THEN [dst |-> dst, res |-> tmp.res]
        ELSE [dst |-> move_assign(dst, tmp.t).dst, res |-> "ok"]

\* hash_set(const size_type &n_buckets, ...): -1 from get_size_from_hint()
\* is std::bad_alloc, and no object is constructed.
hash_set_from_buckets(n_buckets, fail) ==
    IF get_size_from_hint(n_buckets) = -1 THEN [t |-> hash_set_default, res |-> "bad_alloc"]
    ELSE IF fail = "new_table" THEN [t |-> hash_set_default, res |-> "new_table_throws"]
    ELSE [t |-> [m_container |-> container_type(get_size_from_hint(n_buckets)),
                 m_n_elements |-> 0],
          res |-> "ok"]

\* A move constructor that leaves the element count in the source.
move_construct_keep_count(src) ==
    [dst |-> [m_container |-> src.m_container, m_n_elements |-> src.m_n_elements],
     src |-> [m_container |-> <<>>, m_n_elements |-> src.m_n_elements]]

\* hash_set(hash_set &&other): the pair (new object, other) afterwards.
move_construct(src) ==
    [dst |-> [m_container |-> src.m_container, m_n_elements |-> src.m_n_elements],
     src |-> clear(src)]

\* The calls insert(k), erase(returned iterator), insert(k) in sequence on
\* table t.  An exception of the first insert() ends the sequence.
round_trip(t, k) ==
    LET r1 == insert(t, k, "none")
        r2 == erase(r1.t, r1.ret)
        r3 == insert(r2.t, k, "none")
    IN  IF r1.res # "ok" THEN Result(r1.t, r1.res, NoIt, FALSE)
        ELSE Result(r3.t, r3.res, find(r3.t, k), r1.inserted)

(***************************************************************************)
(* The hybrid integer mp_integer.  A static integer is a record [_mp_size, *)
(* m_limbs] of two limbs in sign-magnitude form: |_mp_size| is the number  *)
(* of limbs in use and its sign is the sign of the value.  A dynamic       *)
(* integer is the value of its mpz_t.  A hybrid integer is a record        *)
(* [m_static, g_st, g_dy].                                                 *)
(***************************************************************************)
Abs(x) ==
    IF x < 0 THEN -x ELSE x

\* static_integer::limb_bits
limb_bits ==
    LimbBits

\* The base of the limbs, 2^limb_bits.
limb_base ==
    Pow2(limb_bits)

\* The largest magnitude of a static integer: two limbs with all bits set.
static_max ==
    limb_base * limb_base - 1

\* The native integers, std::numeric_limits<int>::min()..max() scaled down.
Native ==
    (-NativeMax)..NativeMax

\* The magnitudes that the model follows.
MaxMagnitude ==
    static_max + NativeMax + 1

\* A static integer from a sign and a magnitude of at most two limbs.
static_from_magnitude(negative, mag) ==
    LET lo == mag % limb_base
        hi == mag \div limb_base
        asize == IF hi # 0 THEN 2 ELSE IF lo # 0 THEN 1 ELSE 0
    IN  [_mp_size |-> IF negative THEN -asize ELSE asize, m_limbs |-> <<lo, hi>>]

\* static_integer(n): construction from an integer that fits.
static_integer(n) ==
    static_from_magnitude(n < 0, Abs(n))

\* The magnitude of a static integer, in a wider integer.
static_magnitude(x) ==
    IF Abs(x._mp_size) = 0 THEN 0
    ELSE IF Abs(x._mp_size) = 1 THEN x.m_limbs[1]
    ELSE x.m_limbs[1] + x.m_limbs[2] * limb_base

static_negative(x) ==
    x._mp_size < 0

\* The integer that a static integer stands for.
static_value(x) ==
    IF static_negative(x) THEN -static_magnitude(x) ELSE static_magnitude(x)

\* A result that reports overflow at the largest magnitude already.
static_result_early(negative, mag) ==
    IF mag >= static_max THEN [overflow |-> TRUE, st |-> static_integer(0)]
    ELSE [overflow |-> FALSE, st |-> static_from_magnitude(negative /\ mag # 0, mag)]

\* The result of a static operation: the overflow flag and, without
\* overflow, the result.
static_result(negative, mag) ==
    IF mag > static_max THEN [overflow |-> TRUE, st |-> static_integer(0)]
    ELSE [overflow |-> FALSE, st |-> static_from_magnitude(negative /\ mag # 0, mag)]

\* The sum of two sign-magnitude numbers: its sign and its magnitude.
signed_sum(nx, mx, ny, my) ==
    IF nx = ny THEN [negative |-> nx, mag |-> mx + my]
    ELSE IF mx >= my THEN [negative |-> nx, mag |-> mx - my]
    ELSE [negative |-> ny, mag |-> my - mx]

\* static_integer::add()
static_add(x, y) ==
    LET r == signed_sum(static_negative(x), static_magnitude(x),
                        static_negative(y), static_magnitude(y))
    IN  static_result(r.negative, r.mag)

\* static_integer::negate(): the sign of the size is flipped.
static_negate(x) ==
    [x EXCEPT !._mp_size = -@]

\* static_integer::sub()
static_sub(x, y) ==
    static_add(x, static_negate(y))

\* static_integer::mul()
static_mul(x, y) ==
    static_result(static_negative(x) # static_negative(y),
                  static_magnitude(x) * static_magnitude(y))

\* A remainder that takes the sign of the divisor.
static_rem_sign_of_divisor(x, y) ==
    static_result(static_negative(y), static_magnitude(x) % static_magnitude(y))

\* The quotient of static_integer::div(), truncated toward zero.
static_quo(x, y) ==
    static_result(static_negative(x) # static_negative(y),
                  static_magnitude(x) \div static_magnitude(y))

\* The remainder of static_integer::div(): it has the sign of the dividend.
static_rem(x, y) ==
    static_result(static_negative(x), static_magnitude(x) % static_magnitude(y))

\* static_integer::multiply_accumulate(): x + y * z
static_multiply_accumulate(x, y, z) ==
    LET r == signed_sum(static_negative(x), static_magnitude(x),
                        static_negative(y) # static_negative(z),
                        static_magnitude(y) * static_magnitude(z))
    IN  static_result(r.negative, r.mag)

\* static_integer comparison: -1, 0 or 1.
static_compare(x, y) ==
    IF x._mp_size # y._mp_size THEN (IF x._mp_size < y._mp_size THEN -1 ELSE 1)
    ELSE IF static_magnitude(x) = static_magnitude(y) THEN 0
    ELSE IF (static_magnitude(x) < static_magnitude(y)) # static_negative(x) THEN -1
    ELSE 1

\* The functions of the arbitrary-precision library on dynamic integers.
mpz_add(a, b) ==
    a + b

mpz_sub(a, b) ==
    a - b

mpz_mul(a, b) ==
    a * b

\* A quotient rounded toward minus infinity.
mpz_fdiv_q(a, b) ==
    IF b > 0 THEN a \div b ELSE (-a) \div (-b)

\* mpz_tdiv_q(): the quotient rounded toward zero, from the floor quotient
\* by the magnitude of the divisor.
mpz_tdiv_q(a, b) ==
    LET floor_q == a \div Abs(b)
        q == IF a < 0 /\ a % Abs(b) # 0 THEN floor_q + 1 ELSE floor_q
    IN  IF b < 0 THEN -q ELSE q

\* mpz_tdiv_r()
mpz_tdiv_r(a, b) ==
    a - b * mpz_tdiv_q(a, b)

\* mpz_addmul()
mpz_addmul(a, b, c) ==
    a + b * c

\* mpz_cmp(): -1, 0 or 1.
mpz_cmp(a, b) ==
    IF a < b THEN -1 ELSE IF a = b THEN 0 ELSE 1

\* A hybrid integer with static storage.
static_int(st) ==
    [m_static |-> TRUE, g_st |-> st, g_dy |-> 0]

\* A hybrid integer with dynamic storage.
dynamic_int(v) ==
    [m_static |-> FALSE, g_st |-> static_integer(0), g_dy |-> v]

\* mp_integer(n): static when n fits two limbs, else dynamic.
mp_integer(n) ==
    IF Abs(n) <= static_max THEN static_int(static_integer(n)) ELSE dynamic_int(n)

\* mp_integer::is_static()
is_static(n) ==
    n.m_static

\* mp_integer::promote(), called on a static integer.
promote(n) ==
    dynamic_int(static_value(n.g_st))

\* The integer that a hybrid integer stands for.
Value(n) ==
    IF is_static(n) THEN static_value(n.g_st) ELSE n.g_dy

ArithOps ==
    {"+", "-", "*", "/", "%"}

CmpOps ==
    {"==", "!=", "<", ">", "<=", ">="}

\* The static operation for an operator.
static_op(op, x, y) ==
    CASE op = "+" -> static_add(x, y)
      [] op = "-" -> static_sub(x, y)
      [] op = "*" -> static_mul(x, y)
      [] op = "/" -> static_quo(x, y)
      [] op = "%" -> static_rem(x, y)

\* The library function for an operator.
mpz_op(op, a, b) ==
    CASE op = "+" -> mpz_add(a, b)
      [] op = "-" -> mpz_sub(a, b)
      [] op = "*" -> mpz_mul(a, b)
      [] op = "/" -> mpz_tdiv_q(a, b)
      [] op = "%" -> mpz_tdiv_r(a, b)

\* The storage of a result that was computed with the library for a static
\* destination: the destination becomes dynamic only if the result does not
\* fit the static capacity.
static_or_promoted(v) ==
    IF Abs(v) <= static_max THEN static_int(static_integer(v)) ELSE dynamic_int(v)

\* An in-place operation that clears a before it reports a zero divisor.
in_place_clearing(op, a, b) ==
    IF op \in {"/", "%"} /\ Value(b) = 0
    THEN [n |-> mp_integer(0), res |-> "zero_division_error"]
    ELSE IF is_static(a) /\ is_static(b) /\ ~static_op(op, a.g_st, b.g_st).overflow
    THEN [n |-> static_int(static_op(op, a.g_st, b.g_st).st), res |-> "ok"]
    ELSE IF is_static(a) /\ ~is_static(b)
    THEN [n |-> static_or_promoted(mpz_op(op, Value(a), Value(b))), res |-> "ok"]
    ELSE [n |-> dynamic_int(mpz_op(op, Value(a), Value(b))), res |-> "ok"]

\* a op= b.  The static operation is tried when both operands are static,
\* and an overflow promotes a; a dynamic a stays dynamic.
in_place(op, a, b) ==
    IF op \in {"/", "%"} /\ Value(b) = 0 THEN [n |-> a, res |-> "zero_division_error"]
    ELSE IF is_static(a) /\ is_static(b)
    THEN LET r == static_op(op, a.g_st, b.g_st)
         IN  IF ~r.overflow THEN [n |-> static_int(r.st), res |-> "ok"]
             ELSE [n |-> dynamic_int(mpz_op(op, promote(a).g_dy, promote(b).g_dy)),
                   res |-> "ok"]
    ELSE IF is_static(a)
    THEN [n |-> static_or_promoted(mpz_op(op, Value(a), Value(b))), res |-> "ok"]
    ELSE [n |-> dynamic_int(mpz_op(op, a.g_dy, Value(b))), res |-> "ok"]

\* a.multiply_accumulate(b, c): a += b * c
multiply_accumulate(a, b, c) ==
    IF is_static(a) /\ is_static(b) /\ is_static(c)
    THEN LET r == static_multiply_accumulate(a.g_st, b.g_st, c.g_st)
         IN  IF ~r.overflow THEN [n |-> static_int(r.st), res |-> "ok"]
             ELSE [n |-> dynamic_int(mpz_addmul(promote(a).g_dy, promote(b).g_dy,
                                                promote(c).g_dy)),
                   res |-> "ok"]
    ELSE IF is_static(a)
    THEN [n |-> static_or_promoted(mpz_addmul(Value(a), Value(b), Value(c))), res |-> "ok"]
    ELSE [n |-> dynamic_int(mpz_addmul(a.g_dy, Value(b), Value(c))), res |-> "ok"]

\* A multiply_accumulate() that, after the promotion of a, reads each
\* operand from the storage that the operand had before the promotion.
multiply_accumulate_stale(store, x, y) ==
    LET a == store.a
        all_static == is_static(a) /\ is_static(store[x]) /\ is_static(store[y])
        r == static_multiply_accumulate(a.g_st, store[x].g_st, store[y].g_st)
    IN  IF all_static /\ ~r.overflow THEN [store EXCEPT !.a = static_int(r.st)]
        ELSE IF all_static
        THEN LET retry == [store EXCEPT !.a = promote(a)]
             IN  [retry EXCEPT !.a = dynamic_int(mpz_addmul(retry.a.g_dy,
                                                            static_value(retry[x].g_st),
                                                            static_value(retry[y].g_st)))]
        ELSE [store EXCEPT !.a = multiply_accumulate(a, store[x], store[y]).n]

\* a.multiply_accumulate(x, y) on the objects a, b and c of `store', where
\* x and y name the objects that are passed by reference: each may be a
\* itself.  When the static operation reports overflow, a is promoted and
\* the operation is retried on the objects as they are then.
multiply_accumulate_refs(store, x, y) ==
    LET a == store.a
        all_static == is_static(a) /\ is_static(store[x]) /\ is_static(store[y])
        r == static_multiply_accumulate(a.g_st, store[x].g_st, store[y].g_st)
    IN  IF all_static /\ ~r.overflow THEN [store EXCEPT !.a = static_int(r.st)]
        ELSE IF all_static
        THEN LET retry == [store EXCEPT !.a = promote(a)]
             IN  [retry EXCEPT !.a = dynamic_int(mpz_addmul(retry.a.g_dy, Value(retry[x]),
                                                            Value(retry[y])))]
        ELSE [store EXCEPT !.a = multiply_accumulate(a, store[x], store[y]).n]

\* The three-way comparison of two hybrid integers.
compare(a, b) ==
    IF is_static(a) /\ is_static(b) THEN static_compare(a.g_st, b.g_st)
    ELSE mpz_cmp(Value(a), Value(b))

\* a op b for a comparison operator.
cmp_op(op, a, b) ==
    CASE op = "==" -> compare(a, b) = 0
      [] op = "!=" -> compare(a, b) # 0
      [] op = "<" -> compare(a, b) < 0
      [] op = ">" -> compare(a, b) > 0
      [] op = "<=" -> compare(a, b) <= 0
      [] op = ">=" -> compare(a, b) >= 0

\* a op b: the in-place operation on a copy of a.
binary(op, a, b) ==
    LET retval == a
    IN  in_place(op, retval, b)

\* a op= n, for a native integer n: n is converted to a hybrid integer.
in_place_int(op, a, n) ==
    in_place(op, a, mp_integer(n))

\* a op n, for a native integer n.
binary_int(op, a, n) ==
    binary(op, a, mp_integer(n))

\* x op b, for a native integer x: the result is a hybrid integer.
int_binary(op, x, b) ==
    binary(op, mp_integer(x), b)

\* The conversion of a hybrid integer to the native type: it fails when
\* the value does not fit.
to_native(n) ==
    IF Value(n) \in Native THEN [x |-> Value(n), res |-> "ok"]
    ELSE [x |-> 0, res |-> "overflow_error"]

\* x op= b, for a native integer x: x = static_cast<T>(x op b).  A failure
\* leaves x as it was.
int_in_place(op, x, b) ==
    LET r == int_binary(op, x, b)
        cast == to_native(r.n)
    IN  IF r.res # "ok" THEN [x |-> x, res |-> r.res]
        ELSE IF cast.res # "ok" THEN [x |-> x, res |-> cast.res]
        ELSE [x |-> cast.x, res |-> "ok"]

\* The power of a hybrid integer for a natural exponent, by repeated
\* squaring with the hybrid multiplication.
RECURSIVE pow_ui(_, _)
pow_ui(base, e) ==
    IF e = 0 THEN mp_integer(1)
    ELSE LET half == pow_ui(in_place("*", base, base).n, e \div 2)
         IN  IF e % 2 = 1 THEN in_place("*", half, base).n ELSE half

\* A power that is 1 for every negative exponent of the bases 1 and -1.
pow_unit_one(n, e) ==
    IF Value(e) >= 0 THEN [n |-> pow_ui(n, Value(e)), res |-> "ok"]
    ELSE IF Value(n) = 0 THEN [n |-> mp_integer(0), res |-> "zero_division_error"]
    ELSE IF Abs(Value(n)) = 1 THEN [n |-> mp_integer(1), res |-> "ok"]
    ELSE [n |-> mp_integer(0), res |-> "ok"]

\* n.pow(e) for a hybrid exponent e.
pow(n, e) ==
    IF Value(e) >= 0 THEN [n |-> pow_ui(n, Value(e)), res |-> "ok"]
    ELSE IF Value(n) = 0 THEN [n |-> mp_integer(0), res |-> "zero_division_error"]
    ELSE IF Value(n) = 1 THEN [n |-> mp_integer(1), res |-> "ok"]
    ELSE IF Value(n) = -1
    THEN [n |-> IF Abs(Value(e)) % 2 = 1 THEN mp_integer(-1) ELSE mp_integer(1),
          res |-> "ok"]
    ELSE [n |-> mp_integer(0), res |-> "ok"]

\* n.pow(x) for a native exponent x.
pow_int(n, x) ==
    pow(n, mp_integer(x))

(***************************************************************************)
(* piranha::tuning (src/src/tuning.hpp): two atomic globals.  Each method  *)
(* makes one atomic access, a load or a store, so a call is one step.      *)
(***************************************************************************)
\* tuning::get_parallel_memory_set(): the loaded value.
get_parallel_memory_set(s) ==
    s

\* tuning::set_parallel_memory_set(): the stored value.
set_parallel_memory_set(s, flag) ==
    flag

\* tuning::reset_parallel_memory_set()
reset_parallel_memory_set(s) ==
    TRUE

\* tuning::get_multiplication_block_size(): the loaded value.
get_multiplication_block_size(s) ==
    s

\* A setter without the check of the range.
set_multiplication_block_size_unchecked(s, block_size) ==
    [s |-> block_size, res |-> "ok"]

\* tuning::set_multiplication_block_size(): the value of the global after
\* the call, and the exception if any.
set_multiplication_block_size(s, block_size) ==
    IF block_size < 16 \/ block_size > 4096 THEN [s |-> s, res |-> "invalid_argument"]
    ELSE [s |-> block_size, res |-> "ok"]

\* tuning::reset_multiplication_block_size()
reset_multiplication_block_size(s) ==
    256

(***************************************************************************)
(* The state machine: a program that calls the public interface on two     *)
(* tables, `set' and `other'.                                              *)
(***************************************************************************)
InsertFailures ==
    {"none", "grow0_new_table", "hash", "equal", "grow_new_table", "grow_loop",
     "rehash_hash", "node"}

RehashFailures ==
    {"none", "new_table", "loop"}

\* What a division by zero in _bucket() can do to the process.
UBOutcomes ==
    {"assertion_failure", "sigfpe", "segfault"}

\* The valid iterators of a table: those that point to an element.
ValidIterators(t) ==
    UNION {{Iterator(i, p) : p \in 1..Len(t.m_container[i])} : i \in DOMAIN t.m_container}

Hints ==
    0..(table_sizes[n_available_sizes - 1] + 1)

Call(op, k, n, it, res, ret, inserted) ==
    [op |-> op, k |-> k, n |-> n, it |-> it, res |-> res, ret |-> ret,
     inserted |-> inserted]

Threads ==
    1..NThreads

\* A thread that runs no call.
IdleThread ==
    [pc |-> "idle", k |-> 0, bucket_idx |-> 0, m_next |-> <<>>]

\* The last operation on `num': the integer before the operation, the
\* operands b and c, the exception, if any, and the result of a comparison.
Operation(op, a, b, c, res, ret) ==
    [form |-> "in_place", op |-> op, a |-> a, b |-> b, c |-> c, res |-> res,
     ret |-> ret]

\* The same for another form of the operator: "binary" for a op b,
\* "in_place_int" for a op= n, "binary_int" for a op n, "int_in_place" for
\* n op= a and "int_binary" for n op a, with a hybrid a and a native n.
Form(form, operation) ==
    [operation EXCEPT !.form = form]

\* An operand of the test program: int_type b{n}, promoted or not.
Operand(n, promoted) ==
    IF promoted /\ is_static(mp_integer(n)) THEN promote(mp_integer(n)) ELSE mp_integer(n)

\* The block sizes that the callers try: at, inside and outside the limits.
BlockSizes ==
    {0, 16 - Margin, 16, 16 + Margin, 4096 - Margin, 4096, 4096 + Margin}

\* The last call of a method of tuning: the thread, the method, its
\* arguments, the block size before the call, the exception if any and the
\* returned values.
TuningCall(thread, op, block_size, flag, before, res, ret, ret_flag) ==
    [thread |-> thread, op |-> op, size |-> block_size, flag |-> flag, before |-> before,
     res |-> res, ret |-> ret, ret_flag |-> ret_flag]

\* std::numeric_limits<T>::digits of the two unsigned types of the program.
digits(type) ==
    IF type = "unsigned char" THEN CharBits ELSE LongBits

\* The value of the `n' bits that start at bit `pos' of the stream of the
\* low `width' bits of each of the `count' limbs of ptr, read one limb at a
\* time; there are zeroes past the last limb.
RECURSIVE read_bits(_, _, _, _, _)
read_bits(ptr, count, pos, n, width) ==
    IF n = 0 \/ pos \div width >= count THEN 0
    ELSE LET limb == ptr[(pos \div width) + 1] % Pow2(width)
             shift == pos % width
             take == IF n < width - shift THEN n ELSE width - shift
         IN  ((limb \div Pow2(shift)) % Pow2(take))
                 + Pow2(take) * read_bits(ptr, count, pos + take, n - take, width)

\* A read_uint() that reads every bit of the input limbs.
read_uint_unskipped(out_type, in_type, ibits, obits, ptr, count, index) ==
    read_bits(ptr, count, index * (digits(out_type) - obits), digits(out_type) - obits,
              digits(in_type))

\* read_uint<out_type, ibits, obits>(ptr, count, index) for limbs of type
\* in_type: the value of type out_type read from the limbs at the logical
\* position index, skipping the ibits high bits of every limb and the obits
\* high bits of the value.
read_uint(out_type, in_type, ibits, obits, ptr, count, index) ==
    read_bits(ptr, count, index * (digits(out_type) - obits), digits(out_type) - obits,
              digits(in_type) - ibits)

\* The pairs of an input type and an output type of the calling program.
ru_test_types ==
    {<<"unsigned char", "unsigned long long">>, <<"unsigned long long", "unsigned char">>,
     <<"unsigned long long", "unsigned long long">>, <<"unsigned char", "unsigned char">>}

\* The input vectors of the program: able to contain a few output values.
InputVectors(in_type, out_type) ==
    [1..(((digits(out_type) * Few) \div digits(in_type)) + 1) -> 0..(Pow2(digits(in_type)) - 1)]

\* Number of values that can be read from the input vector, ignoring ib
\* bits in input and rbits bits in output.
n_rets(input_vector, in_type, out_type, ib, rbits) ==
    LET tmp1 == Len(input_vector) * (digits(in_type) - ib)
        tmp2 == digits(out_type) - rbits
    IN  IF tmp1 % tmp2 = 0 THEN tmp1 \div tmp2 ELSE (tmp1 \div tmp2) + 1

\* A call of read_uint() by the program: the types, the input vector, the
\* ignored bits, the index and the returned value.
ReadCall(op, in_type, out_type, input_vector, ibits, obits, index, ret) ==
    [op |-> op, in_type |-> in_type, out_type |-> out_type, input_vector |-> input_vector,
     ibits |-> ibits, obits |-> obits, index |-> index, ret |-> ret]

\* The loop `it = begin(); while (it != end()) if (pred(*it)) it = erase(it);
\* else ++it;' of the calling program: its position, its iterator, the keys
\* that satisfy pred, and the table at its start.
Loop(pc, it, pred, start) ==
    [pc |-> pc, it |-> it, pred |-> pred, start |-> start]

\* No call of read_uint() yet.
NoRead ==
    [op |-> "none"]

\* The second table is a scratch object of the calling program: the
\* program calls the operations of `set' while `other' is empty.
Idle ==
    /\ status = "running"
    /\ other = hash_set_default

Init ==
    /\ set = hash_set_default
    /\ other = hash_set_default
    /\ last = Call("hash_set", 0, 0, NoIt, "ok", NoIt, FALSE)
    /\ status = "running"
    /\ threads = [i \in Threads |-> IdleThread]
    /\ forked = hash_set_default
    /\ num = mp_integer(0)
    /\ arith = Operation("mp_integer", mp_integer(0), mp_integer(0), mp_integer(0), "ok", FALSE)
    /\ s_parallel_memory_set = TRUE
    /\ s_mult_block_size = 256
    /\ tuned = TuningCall(0, "tuning", 0, FALSE, 256, "ok", 0, FALSE)
    /\ passed = [sizes |-> {}, flags |-> {}]
    /\ loop = Loop("idle", NoIt, {}, hash_set_default)
    /\ read = NoRead

Insert(k, fail) ==
    /\ Idle
    /\ LET r == insert(set, k, fail)
       IN  /\ set' = r.t
           /\ last' = Call("insert", k, 0, NoIt, r.res, r.ret, r.inserted)
    /\ UNCHANGED <<other, status, thread_vars, int_vars, tuning_vars, aux_vars>>

Erase(it) ==
    /\ Idle
    /\ LET r == erase(set, it)
       IN  /\ set' = r.t
           /\ last' = Call("erase", 0, 0, it, r.res, r.ret, FALSE)
    /\ UNCHANGED <<other, status, thread_vars, int_vars, tuning_vars, aux_vars>>

Rehash(new_size, fail) ==
    /\ Idle
    /\ LET r == rehash(set, new_size, fail)
       IN  /\ set' = r.t
           /\ last' = Call("rehash", 0, new_size, NoIt, r.res, NoIt, FALSE)
           /\ IF r.res = "ub" THEN status' \in UBOutcomes ELSE status' = status
    /\ UNCHANGED <<other, thread_vars, int_vars, tuning_vars, aux_vars>>

Clear ==
    /\ Idle
    /\ set' = clear(set)
    /\ last' = Call("clear", 0, 0, NoIt, "ok", NoIt, FALSE)
    /\ UNCHANGED <<other, status, thread_vars, int_vars, tuning_vars, aux_vars>>

\* dst = src (copy assignment), in either direction between the tables.
CopyAssign(to_other, fail) ==
    /\ status = "running"
    /\ LET r == IF to_other THEN copy_assign(other, set, fail)
                ELSE copy_assign(set, other, fail)
       IN  /\ IF to_other THEN other' = r.dst /\ set' = set
              ELSE set' = r.dst /\ other' = other
           /\ last' = Call("copy_assign", 0, 0, NoIt, r.res, NoIt, to_other)
    /\ UNCHANGED <<status, thread_vars, int_vars, tuning_vars, aux_vars>>

\* dst = std::move(src), in either direction between the tables.
MoveAssign(to_other) ==
    /\ status = "running"
    /\ LET r == IF to_other THEN move_assign(other, set) ELSE move_assign(set, other)
       IN  IF to_other THEN other' = r.dst /\ set' = r.src
           ELSE set' = r.dst /\ other' = r.src
    /\ last' = Call("move_assign", 0, 0, NoIt, "ok", NoIt, to_other)
    /\ UNCHANGED <<status, thread_vars, int_vars, tuning_vars, aux_vars>>

\* const_iterator find(const key_type &k) const
Find(k) ==
    /\ Idle
    /\ last' = Call("find", k, 0, NoIt, "ok", find(set, k), FALSE)
    /\ UNCHANGED <<set, other, status, thread_vars, int_vars, tuning_vars, aux_vars>>

\* set = hash_set(n_buckets): a table constructed from a number of buckets
\* replaces `set'; nothing is assigned when the constructor throws.
Construct(n_buckets, fail) ==
    /\ Idle
    /\ LET r == hash_set_from_buckets(n_buckets, fail)
       IN  /\ set' = IF r.res = "ok" THEN move_assign(set, r.t).dst ELSE set
           /\ last' = Call("hash_set", 0, n_buckets, NoIt, r.res, NoIt, FALSE)
    /\ UNCHANGED <<other, status, thread_vars, int_vars, tuning_vars, aux_vars>>

\* hash_set other(std::move(set)): `other' starts its life as the new object.
MoveConstruct ==
    /\ Idle
    /\ LET r == move_construct(set)
       IN  /\ other' = r.dst
           /\ set' = r.src
    /\ last' = Call("move_construct", 0, 0, NoIt, "ok", NoIt, TRUE)
    /\ UNCHANGED <<status, thread_vars, int_vars, tuning_vars, aux_vars>>

IncreaseSize(fail) ==
    /\ Idle
    /\ LET r == _increase_size(set, fail)
       IN  /\ set' = r.t
           /\ last' = Call("_increase_size", 0, 0, NoIt, r.res, NoIt, FALSE)
           /\ IF r.res = "ub" THEN status' \in UBOutcomes ELSE status' = status
    /\ UNCHANGED <<other, thread_vars, int_vars, tuning_vars, aux_vars>>

Next ==
    \/ \E k \in Keys, fail \in InsertFailures : Insert(k, fail)
    \/ \E it \in ValidIterators(set) : Erase(it)
    \/ \E new_size \in Hints, fail \in RehashFailures : Rehash(new_size, fail)
    \/ Clear
    \/ \E to_other \in BOOLEAN, fail \in {"none", "copy"} : CopyAssign(to_other, fail)
    \/ \E to_other \in BOOLEAN : MoveAssign(to_other)
    \/ \E k \in Keys : Find(k)
    \/ \E n_buckets \in Hints, fail \in {"none", "new_table"} : Construct(n_buckets, fail)
    \/ MoveConstruct
    \/ \E fail \in RehashFailures : IncreaseSize(fail)

Spec ==
    Init /\ [][Next]_vars

\* A program that only inserts, with no step of insert() failing.
InsertNext ==
    \E k \in Keys : Insert(k, "none")

SpecInsert ==
    Init /\ [][InsertNext]_vars

\* The new sizes that the program passes to _update_size().
UpdateSizes ==
    (0..MaxStored) \cup {const_max}

\* _unique_insert(k, bucket_idx) on a table with buckets.  The two
\* piranha_assert()s are compiled in debug builds only: a call with a key
\* that is stored already, or with another index than _bucket(k), aborts
\* there and inserts in a release build.
UniqueInsert(k, bucket_idx) ==
    /\ Idle
    /\ bucket_count(set) # 0
    /\ bucket_idx \in DOMAIN set.m_container
    /\ StoredCount(set) < MaxStored
    /\ \/ /\ set' = _unique_insert(set, k, bucket_idx).t
          /\ last' = Call("_unique_insert", k, bucket_idx, NoIt, "ok",
                          _unique_insert(set, k, bucket_idx).ret, FALSE)
          /\ status' = status
       \/ /\ find(set, k) # end(set) \/ bucket_idx # _bucket(set, k)
          /\ set' = set
          /\ last' = Call("_unique_insert", k, bucket_idx, NoIt, "assertion_failure",
                          NoIt, FALSE)
          /\ status' = "assertion_failure"
    /\ UNCHANGED <<other, thread_vars, int_vars, tuning_vars, aux_vars>>

UpdateSize(new_size) ==
    /\ Idle
    /\ set' = _update_size(set, new_size)
    /\ last' = Call("_update_size", 0, new_size, NoIt, "ok", NoIt, FALSE)
    /\ UNCHANGED <<other, status, thread_vars, int_vars, tuning_vars, aux_vars>>

\* A program that fills a table through the low-level interface.
LowLevelNext ==
    \/ \E k \in Keys, bucket_idx \in 0..(MaxBuckets - 1) : UniqueInsert(k, bucket_idx)
    \/ \E new_size \in UpdateSizes : UpdateSize(new_size)
    \/ \E fail \in RehashFailures : IncreaseSize(fail)

SpecLowLevel ==
    Init /\ [][LowLevelNext]_vars

\* No thread is inside a call of _unique_insert().
AllIdle ==
    \A i \in Threads : threads[i].pc = "idle"

AllDone ==
    \A i \in Threads : threads[i].pc = "done"

\* The calling program hands one key to each thread.  It keeps the
\* documented conditions of _unique_insert(): the keys are not in the table,
\* bucket_idx is _bucket(k), and the destination buckets are pairwise
\* disjoint.
Fork(keys) ==
    /\ Idle
    /\ AllIdle
    /\ bucket_count(set) # 0
    /\ \A i \in Threads : keys[i] \notin Elements(set)
    /\ \A i, j \in Threads : i # j => _bucket(set, keys[i]) # _bucket(set, keys[j])
    /\ threads' = [i \in Threads |->
                      [pc |-> "insert", k |-> keys[i],
                       bucket_idx |-> _bucket(set, keys[i]), m_next |-> <<>>]]
    /\ forked' = set
    /\ UNCHANGED <<set, other, last, status, int_vars, tuning_vars, aux_vars>>

\* list::insert(): the test of m_node.m_next.
ThreadTest(i) ==
    /\ threads[i].pc = "insert"
    /\ threads' = [threads EXCEPT ![i].pc =
                      IF list_insert_test(set, threads[i]) THEN "new_node" ELSE "head"]
    /\ UNCHANGED <<set, other, last, status, forked, int_vars, tuning_vars, aux_vars>>

\* list::insert(): the new node is created and linked to the second node.
ThreadNewNode(i) ==
    /\ threads[i].pc = "new_node"
    /\ threads' = [threads EXCEPT ![i].pc = "link",
                                  ![i].m_next = list_insert_read_next(set, threads[i])]
    /\ UNCHANGED <<set, other, last, status, forked, int_vars, tuning_vars, aux_vars>>

\* list::insert(): the first node is linked to the new node.
ThreadLink(i) ==
    /\ threads[i].pc = "link"
    /\ set' = list_insert_link(set, threads[i])
    /\ threads' = [threads EXCEPT ![i].pc = "done"]
    /\ UNCHANGED <<other, last, status, forked, int_vars, tuning_vars, aux_vars>>

\* list::insert(): the item is constructed in the first node of an empty
\* list.
ThreadHead(i) ==
    /\ threads[i].pc = "head"
    /\ set' = list_insert_head(set, threads[i])
    /\ threads' = [threads EXCEPT ![i].pc = "done"]
    /\ UNCHANGED <<other, last, status, forked, int_vars, tuning_vars, aux_vars>>

\* The threads are joined and the program sets the element count.
Join ==
    /\ AllDone
    /\ set' = _update_size(set, size(set) + NThreads)
    /\ threads' = [i \in Threads |-> IdleThread]
    /\ last' = Call("_update_size", 0, size(set) + NThreads, NoIt, "ok", NoIt, FALSE)
    /\ UNCHANGED <<other, status, forked, int_vars, tuning_vars, aux_vars>>

\* A program that inserts keys, and that fills the table with concurrent
\* calls of _unique_insert() while no other call runs.
ThreadsNext ==
    \/ AllIdle /\ \E k \in Keys : Insert(k, "none")
    \/ \E keys \in [Threads -> Keys] : Fork(keys)
    \/ \E i \in Threads : ThreadTest(i)
    \/ \E i \in Threads : ThreadNewNode(i)
    \/ \E i \in Threads : ThreadLink(i)
    \/ \E i \in Threads : ThreadHead(i)
    \/ Join

SpecThreads ==
    Init /\ [][ThreadsNext]_vars

\* a = n, for a native integer n.
Assign(n) ==
    /\ num' = mp_integer(n)
    /\ arith' = Operation("=", num, mp_integer(n), mp_integer(0), "ok", FALSE)
    /\ UNCHANGED <<set, other, last, status, thread_vars, tuning_vars, aux_vars>>

\* if (a.is_static()) a.promote()
Promote ==
    /\ is_static(num)
    /\ num' = promote(num)
    /\ arith' = Operation("promote", num, mp_integer(0), mp_integer(0), "ok", FALSE)
    /\ UNCHANGED <<set, other, last, status, thread_vars, tuning_vars, aux_vars>>

\* a op= b
InPlace(op, n, promoted) ==
    LET b == Operand(n, promoted)
        r == in_place(op, num, b)
    IN  /\ Abs(Value(r.n)) <= MaxMagnitude
        /\ num' = r.n
        /\ arith' = Operation(op, num, b, mp_integer(0), r.res, FALSE)
        /\ UNCHANGED <<set, other, last, status, thread_vars, tuning_vars, aux_vars>>

\* a.multiply_accumulate(b, c)
MultiplyAccumulate(n1, promoted1, n2, promoted2) ==
    LET store == [a |-> num, b |-> Operand(n1, promoted1), c |-> Operand(n2, promoted2)]
    IN  /\ \E r \in {multiply_accumulate_refs(store, "b", "c")} :
               /\ Abs(Value(r.a)) <= MaxMagnitude
               /\ num' = r.a
               /\ arith' = Operation("multiply_accumulate", num, store.b, store.c, "ok",
                                     [x |-> "b", y |-> "c", b |-> r.b, c |-> r.c])
        /\ UNCHANGED <<set, other, last, status, thread_vars, tuning_vars, aux_vars>>

\* a.multiply_accumulate(x, y) where x or y or both are a itself; the other
\* operand, if any, is b or c.  The operands are recorded as they are
\* before the call, and b and c as they are after it.
MultiplyAccumulateAlias(x, y, n, promoted) ==
    LET store == [a |-> num,
                  b |-> IF x = "b" THEN Operand(n, promoted) ELSE mp_integer(0),
                  c |-> IF y = "c" THEN Operand(n, promoted) ELSE mp_integer(0)]
    IN  /\ x = "a" \/ y = "a"
        /\ \E r \in {multiply_accumulate_refs(store, x, y)} :
               /\ Abs(Value(r.a)) <= MaxMagnitude
               /\ num' = r.a
               /\ arith' = Operation("multiply_accumulate", num, store[x], store[y], "ok",
                                     [x |-> x, y |-> y, b |-> r.b, c |-> r.c])
        /\ UNCHANGED <<set, other, last, status, thread_vars, tuning_vars, aux_vars>>

\* a op b for a comparison operator
Compare(op, n, promoted) ==
    LET b == Operand(n, promoted)
    IN  /\ arith' = Operation(op, num, b, mp_integer(0), "ok", cmp_op(op, num, b))
        /\ UNCHANGED <<set, other, last, status, thread_vars, num, tuning_vars,
                       aux_vars>>

\* A program that computes with one hybrid integer.
IntegerNext ==
    \/ \E n \in Native : Assign(n)
    \/ Promote
    \/ \E op \in ArithOps, n \in Native, promoted \in BOOLEAN : InPlace(op, n, promoted)
    \/ \E n1, n2 \in Native, promoted1, promoted2 \in BOOLEAN :
           MultiplyAccumulate(n1, promoted1, n2, promoted2)

SpecInteger ==
    Init /\ [][IntegerNext]_vars

\* A program that accumulates products into one hybrid integer, with
\* operands of their own and with the integer itself as an operand.
AccumulateNext ==
    \/ \E n \in Native : Assign(n)
    \/ Promote
    \/ \E n1, n2 \in Native, promoted1, promoted2 \in BOOLEAN :
           MultiplyAccumulate(n1, promoted1, n2, promoted2)
    \/ \E n \in Native, promoted \in BOOLEAN : MultiplyAccumulateAlias("a", "c", n, promoted)
    \/ \E n \in Native, promoted \in BOOLEAN : MultiplyAccumulateAlias("b", "a", n, promoted)
    \/ MultiplyAccumulateAlias("a", "a", 0, FALSE)

SpecAccumulate ==
    Init /\ [][AccumulateNext]_vars

\* A program that computes with one hybrid integer and compares it.
CompareNext ==
    \/ \E n \in Native : Assign(n)
    \/ Promote
    \/ \E op \in ArithOps, n \in Native, promoted \in BOOLEAN : InPlace(op, n, promoted)
    \/ \E op \in CmpOps, n \in Native, promoted \in BOOLEAN : Compare(op, n, promoted)

SpecCompare ==
    Init /\ [][CompareNext]_vars

DivOps ==
    {"/", "%"}

\* The hybrid integers that the tests of division construct.
Operands ==
    (-MaxMagnitude)..MaxMagnitude

\* a op b, with hybrid operands: a is not changed.
Binary(op, n, promoted) ==
    LET b == Operand(n, promoted)
        r == binary(op, num, b)
    IN  /\ arith' = Form("binary", Operation(op, num, b, mp_integer(0), r.res, r.n))
        /\ UNCHANGED <<set, other, last, status, thread_vars, num, tuning_vars,
                       aux_vars>>

\* a op= n, with a native n
InPlaceInt(op, n) ==
    LET r == in_place_int(op, num, n)
    IN  /\ num' = r.n
        /\ arith' = Form("in_place_int",
                         Operation(op, num, mp_integer(n), mp_integer(0), r.res, FALSE))
        /\ UNCHANGED <<set, other, last, status, thread_vars, tuning_vars, aux_vars>>

\* a op n, with a native n
BinaryInt(op, n) ==
    LET r == binary_int(op, num, n)
    IN  /\ arith' = Form("binary_int",
                         Operation(op, num, mp_integer(n), mp_integer(0), r.res, r.n))
        /\ UNCHANGED <<set, other, last, status, thread_vars, num, tuning_vars,
                       aux_vars>>

\* x op= b, with a native x and a hybrid b: the new x is recorded.  x and
\* b are objects of their own, and the test runs while num is as constructed.
IntInPlace(op, x, n, promoted) ==
    LET b == Operand(n, promoted)
        r == int_in_place(op, x, b)
    IN  /\ num = mp_integer(0)
        /\ arith' = Form("int_in_place",
                         Operation(op, mp_integer(x), b, mp_integer(0), r.res, r.x))
        /\ UNCHANGED <<set, other, last, status, thread_vars, num, tuning_vars,
                       aux_vars>>

\* x op b, with a native x and a hybrid b, while num is as constructed
IntBinary(op, x, n, promoted) ==
    LET b == Operand(n, promoted)
        r == int_binary(op, x, b)
    IN  /\ num = mp_integer(0)
        /\ arith' = Form("int_binary",
                         Operation(op, mp_integer(x), b, mp_integer(0), r.res, r.n))
        /\ UNCHANGED <<set, other, last, status, thread_vars, num, tuning_vars,
                       aux_vars>>

\* The tests of division and modulo: every form of the two operators,
\* with a zero divisor too.
DivisionNext ==
    \/ \E n \in Operands : Assign(n)
    \/ Promote
    \/ \E op \in DivOps, n \in Native, promoted \in BOOLEAN : InPlace(op, n, promoted)
    \/ \E op \in DivOps, n \in Native, promoted \in BOOLEAN : Binary(op, n, promoted)
    \/ \E op \in DivOps, n \in Native : InPlaceInt(op, n)
    \/ \E op \in DivOps, n \in Native : BinaryInt(op, n)
    \/ \E op \in DivOps, x, n \in Native, promoted \in BOOLEAN :
           IntInPlace(op, x, n, promoted)
    \/ \E op \in DivOps, x, n \in Native, promoted \in BOOLEAN :
           IntBinary(op, x, n, promoted)

SpecDivision ==
    Init /\ [][DivisionNext]_vars

\* n.pow(e), with a hybrid exponent: n is not changed.
PowTest(e, promoted) ==
    LET b == Operand(e, promoted)
        r == pow(num, b)
    IN  /\ arith' = Form("binary", Operation("pow", num, b, mp_integer(0), r.res, r.n))
        /\ UNCHANGED <<set, other, last, status, thread_vars, num, tuning_vars,
                       aux_vars>>

\* n.pow(x), with a native exponent
PowInt(x) ==
    LET r == pow_int(num, x)
    IN  /\ arith' = Form("binary_int",
                         Operation("pow", num, mp_integer(x), mp_integer(0), r.res, r.n))
        /\ UNCHANGED <<set, other, last, status, thread_vars, num, tuning_vars,
                       aux_vars>>

\* The tests of pow.
PowNext ==
    \/ \E n \in Operands : Assign(n)
    \/ Promote
    \/ \E e \in Native, promoted \in BOOLEAN : PowTest(e, promoted)
    \/ \E x \in Native : PowInt(x)

SpecPow ==
    Init /\ [][PowNext]_vars

\* Thread i calls tuning::get_parallel_memory_set().
GetParallelMemorySet(i) ==
    /\ tuned' = TuningCall(i, "get_parallel_memory_set", 0, FALSE, s_mult_block_size,
                           "ok", 0, get_parallel_memory_set(s_parallel_memory_set))
    /\ UNCHANGED <<set, other, last, status, thread_vars, int_vars,
                   s_parallel_memory_set, s_mult_block_size, passed, aux_vars>>

\* Thread i calls tuning::set_parallel_memory_set(flag).
SetParallelMemorySet(i, flag) ==
    /\ s_parallel_memory_set' = set_parallel_memory_set(s_parallel_memory_set, flag)
    /\ tuned' = TuningCall(i, "set_parallel_memory_set", 0, flag, s_mult_block_size,
                           "ok", 0, FALSE)
    /\ passed' = [passed EXCEPT !.flags = @ \cup {flag}]
    /\ UNCHANGED <<set, other, last, status, thread_vars, int_vars, s_mult_block_size,
                   aux_vars>>

\* Thread i calls tuning::reset_parallel_memory_set().
ResetParallelMemorySet(i) ==
    /\ s_parallel_memory_set' = reset_parallel_memory_set(s_parallel_memory_set)
    /\ tuned' = TuningCall(i, "reset_parallel_memory_set", 0, FALSE, s_mult_block_size,
                           "ok", 0, FALSE)
    /\ UNCHANGED <<set, other, last, status, thread_vars, int_vars, s_mult_block_size,
                   passed, aux_vars>>

\* Thread i calls tuning::get_multiplication_block_size().
GetMultiplicationBlockSize(i) ==
    /\ tuned' = TuningCall(i, "get_multiplication_block_size", 0, FALSE,
                           s_mult_block_size, "ok",
                           get_multiplication_block_size(s_mult_block_size), FALSE)
    /\ UNCHANGED <<set, other, last, status, thread_vars, int_vars,
                   s_parallel_memory_set, s_mult_block_size, passed, aux_vars>>

\* Thread i calls tuning::set_multiplication_block_size(size).
SetMultiplicationBlockSize(i, block_size) ==
    LET r == set_multiplication_block_size(s_mult_block_size, block_size)
    IN  /\ s_mult_block_size' = r.s
        /\ tuned' = TuningCall(i, "set_multiplication_block_size", block_size, FALSE,
                               s_mult_block_size, r.res, 0, FALSE)
        /\ passed' = IF r.res = "ok" THEN [passed EXCEPT !.sizes = @ \cup {block_size}]
                      ELSE passed
        /\ UNCHANGED <<set, other, last, status, thread_vars, int_vars,
                       s_parallel_memory_set, aux_vars>>

\* Thread i calls tuning::reset_multiplication_block_size().
ResetMultiplicationBlockSize(i) ==
    /\ s_mult_block_size' = reset_multiplication_block_size(s_mult_block_size)
    /\ tuned' = TuningCall(i, "reset_multiplication_block_size", 0, FALSE,
                           s_mult_block_size, "ok", 0, FALSE)
    /\ UNCHANGED <<set, other, last, status, thread_vars, int_vars,
                   s_parallel_memory_set, passed, aux_vars>>

\* Threads that call the methods of tuning in any order.
TuningNext ==
    \E i \in Threads :
        \/ GetParallelMemorySet(i)
        \/ \E flag \in BOOLEAN : SetParallelMemorySet(i, flag)
        \/ ResetParallelMemorySet(i)
        \/ GetMultiplicationBlockSize(i)
        \/ \E block_size \in BlockSizes : SetMultiplicationBlockSize(i, block_size)
        \/ ResetMultiplicationBlockSize(i)

SpecTuning ==
    Init /\ [][TuningNext]_vars

\* A program that inserts and erases, with no step failing.
EraseNext ==
    \/ \E k \in Keys : Insert(k, "none")
    \/ \E it \in ValidIterators(set) : Erase(it)

SpecErase ==
    Init /\ [][EraseNext]_vars

\* it = begin(), for a loop that erases the keys of pred.
LoopBegin(pred) ==
    /\ Idle
    /\ loop.pc = "idle"
    /\ loop' = Loop("running", begin(set), pred, set)
    /\ UNCHANGED <<set, other, last, status, thread_vars, int_vars, tuning_vars, read>>

\* One test of the loop condition and, inside the table, one iteration.
LoopStep ==
    /\ loop.pc = "running"
    /\ IF loop.it = end(set)
       THEN /\ loop' = [loop EXCEPT !.pc = "done"]
            /\ UNCHANGED <<set, last>>
       ELSE IF dereference(set, loop.it) \in loop.pred
       THEN LET r == erase(set, loop.it)
            IN  /\ set' = r.t
                /\ last' = Call("erase", 0, 0, loop.it, r.res, r.ret, FALSE)
                /\ loop' = [loop EXCEPT !.it = r.ret]
       ELSE /\ loop' = [loop EXCEPT !.it = increment(set, loop.it)]
            /\ UNCHANGED <<set, last>>
    /\ UNCHANGED <<other, status, thread_vars, int_vars, tuning_vars, read>>

\* The program goes on after the loop.
LoopEnd ==
    /\ loop.pc = "done"
    /\ loop' = Loop("idle", NoIt, {}, hash_set_default)
    /\ UNCHANGED <<set, other, last, status, thread_vars, int_vars, tuning_vars, read>>

\* A program that inserts and, between inserts, runs the loop to its end.
EraseLoopNext ==
    \/ \E k \in Keys : loop.pc = "idle" /\ Insert(k, "none")
    \/ \E pred \in SUBSET Keys : LoopBegin(pred)
    \/ LoopStep
    \/ LoopEnd

SpecEraseLoop ==
    Init /\ [][EraseLoopNext]_vars /\ WF_vars(LoopStep)

\* The sequences of pairwise distinct keys.
KeySequences ==
    UNION {{q \in [1..m -> Keys] : \A i, j \in 1..m : i # j => q[i] # q[j]} :
           m \in 0..MaxKey}

\* A bulk load of keys that are not in the table.
BulkLoad(keys, how) ==
    /\ Idle
    /\ \A i \in 1..Len(keys) : keys[i] \notin Elements(set)
    /\ \E r \in {bulk_load(set, keys, how)} :
           /\ set' = r.t
           /\ last' = Call("bulk_load", 0, Len(keys), NoIt, r.res, NoIt, FALSE)
    /\ UNCHANGED <<other, status, thread_vars, int_vars, tuning_vars, aux_vars>>

\* A program that inserts, erases and loads keys in bulk.
BulkLoadNext ==
    \/ \E k \in Keys : Insert(k, "none")
    \/ \E it \in ValidIterators(set) : Erase(it)
    \/ \E keys \in KeySequences, how \in {"rehash", "_increase_size"} :
           BulkLoad(keys, how)

SpecBulkLoad ==
    Init /\ [][BulkLoadNext]_vars

\* The program fills an input vector for a pair of types.
Generate(in_type, out_type, input_vector) ==
    /\ read.op = "none"
    /\ read' = ReadCall("generate", in_type, out_type, input_vector, 0, 0, 0, 0)
    /\ UNCHANGED <<set, other, last, status, thread_vars, int_vars, tuning_vars, loop>>

\* r = detail::read_uint<out_type, ibits, obits>(&input_vector[0u],
\* input_vector.size(), index), for an index that can be read.
ReadUint(ibits, obits, index) ==
    /\ read.op = "generate"
    /\ ibits < digits(read.in_type)
    /\ obits < digits(read.out_type)
    /\ index < n_rets(read.input_vector, read.in_type, read.out_type, ibits, obits)
    /\ read' = ReadCall("read_uint", read.in_type, read.out_type, read.input_vector, ibits,
                        obits, index,
                        read_uint(read.out_type, read.in_type, ibits, obits, read.input_vector,
                                  Len(read.input_vector), index))
    /\ UNCHANGED <<set, other, last, status, thread_vars, int_vars, tuning_vars, loop>>

\* ret_to_bitset(r, obits) and the BOOST_CHECKs on the value that was read:
\* the program goes on to its next call.
CheckRead ==
    /\ read.op = "read_uint"
    /\ read' = ReadCall("generate", read.in_type, read.out_type, read.input_vector, 0, 0, 0, 0)
    /\ UNCHANGED <<set, other, last, status, thread_vars, int_vars, tuning_vars, loop>>

\* The indices that the program reads.
Indices ==
    0..((CharBits + LongBits) * (Few + 1))

ReadUintNext ==
    \/ \E T \in ru_test_types : \E input_vector \in InputVectors(T[1], T[2]) :
           Generate(T[1], T[2], input_vector)
    \/ \E ibits, obits \in 0..MaxIgnore, index \in Indices : ReadUint(ibits, obits, index)
    \/ CheckRead

SpecReadUint ==
    Init /\ [][ReadUintNext]_vars

\* A program that inserts and erases, and that runs the sequence insert(k),
\* erase(returned iterator), insert(k) as one step.
RoundTrip(k) ==
    /\ Idle
    /\ LET r == round_trip(set, k)
       IN  /\ set' = r.t
           /\ last' = Call("round_trip", k, size(set), NoIt, r.res, r.ret, r.inserted)
    /\ UNCHANGED <<other, status, thread_vars, int_vars, tuning_vars, aux_vars>>

RoundTripNext ==
    \/ \E k \in Keys : Insert(k, "none")
    \/ \E it \in ValidIterators(set) : Erase(it)
    \/ \E k \in Keys : RoundTrip(k)

SpecRoundTrip ==
    Init /\ [][RoundTripNext]_vars

(***************************************************************************)
(* Observations on a table used in the properties.                         *)
(***************************************************************************)
\* The iterators that a loop `for (it = begin(); it != end(); ++it)' visits
\* on table t, from iterator it on, and the iterator at which it stops.  The
\* loop is cut when it leaves the iterators that point to an element.
RECURSIVE walk(_, _, _)
walk(t, it, visited) ==
    IF it = end(t) \/ it \notin ValidIterators(t) \/ Len(visited) > StoredCount(t)
    THEN [visited |-> visited, stop |-> it]
    ELSE walk(t, increment(t, it), Append(visited, it))

forward_traversal(t) ==
    walk(t, begin(t), <<>>)

Failed(res) ==
    res \notin {"ok", "ub"}

\* The smallest non-zero size class that is at least n.
SmallestSizeClass(n) ==
    LET cand == {c \in {table_sizes[i] : i \in DOMAIN table_sizes \ {0}} : c >= n}
    IN  CHOOSE c \in cand : \A d \in cand : c <= d

(***************************************************************************)
(* Properties.                                                             *)
(***************************************************************************)
\* C1: after any sequence of calls the table stores every key at most once
\* and size() is the number of distinct keys stored.
C1_Uniqueness ==
    \A t \in {set, other} :
        /\ \A i, j \in 1..StoredCount(t) : traversal(t)[i] = traversal(t)[j] => i = j
        /\ size(t) = Cardinality(Elements(t))

\* A call of insert() with a key already stored, in a table of three elements.
C1_Witness ==
    /\ last.op = "insert"
    /\ last.res = "ok"
    /\ ~last.inserted
    /\ size(set) = 3
    /\ \E i \in DOMAIN set.m_container : Len(set.m_container[i]) >= 2

\* C2: every stored key is in the bucket hash(k) mod bucket_count().
C2_Placement ==
    \A t \in {set, other} :
        \A i \in DOMAIN t.m_container :
            \A p \in 1..Len(t.m_container[i]) :
                m_hasher(t.m_container[i][p]) % Cardinality(DOMAIN t.m_container) = i

\* An insertion that grew the table, after which an element is in a bucket
\* other than the first.
C2_Witness ==
    /\ last.op = "insert"
    /\ last.inserted
    /\ bucket_count(set) = 3
    /\ size(set) = 2
    /\ set.m_container[1] # <<>>
    /\ set.m_container[0] # <<>>

\* C3: the load factor never exceeds 1: size() <= bucket_count() whenever
\* the table has buckets.
C3_LoadFactor ==
    bucket_count(set) > 0 => size(set) <= bucket_count(set)

\* C4: erase(it) removes exactly the element it points to, decreases size()
\* by one and returns an iterator to the element that followed it in the
\* traversal before the erase, or end() if there was none.
C4_EraseReturnsNext ==
    [][last'.op = "erase" =>
        LET it == last'.it
            following == increment(set, it)
        IN  /\ Elements(set') = Elements(set) \ {dereference(set, it)}
            /\ StoredCount(set') = StoredCount(set) - 1
            /\ size(set') = size(set) - 1
            /\ IF following = end(set) THEN last'.ret = end(set')
               ELSE /\ last'.ret \in ValidIterators(set')
                    /\ dereference(set', last'.ret) = dereference(set, following)]_vars

\* C5: rehash(new_size) keeps the elements and size() and makes
\* bucket_count() the smallest size class >= new_size.
C5_RehashPreserves ==
    [][last'.op = "rehash" /\ ~Failed(last'.res) =>
        /\ status' = "running"
        /\ Elements(set') = Elements(set)
        /\ StoredCount(set') = StoredCount(set)
        /\ size(set') = size(set)
        /\ bucket_count(set') = get_size_from_hint(last'.n)]_vars

C7_RehashFailureClears ==
    last.res = "loop_throws" =>
        /\ size(set) = 0
        /\ bucket_count(set) = 0
        /\ traversal(set) = <<>>

\* A call of rehash() whose loop threw.
C7_Witness ==
    /\ last.op = "rehash"
    /\ last.res = "loop_throws"
    /\ last.n = 3

\* C8: an operation other than insert() that fails leaves both tables as
\* they were before the call.
C8_StrongGuarantee ==
    [][last'.op # "insert" /\ Failed(last'.res) => set' = set /\ other' = other]_vars

\* C9: insert(k) with k already stored changes nothing and returns the
\* iterator to the stored element and false.
C9_InsertExisting ==
    [][last'.op = "insert" /\ last'.k \in Elements(set) =>
        /\ set' = set
        /\ last'.res = "ok" =>
            /\ ~last'.inserted
            /\ last'.ret \in ValidIterators(set)
            /\ dereference(set, last'.ret) = last'.k]_vars

\* insert() of a stored key in a table with size() = bucket_count() = 3.
C9_Witness ==
    /\ last.op = "insert"
    /\ last.res = "ok"
    /\ ~last.inserted
    /\ size(set) = 3
    /\ bucket_count(set) = 3
    /\ last.ret.m_it = 2

\* C10: insert() changes bucket_count(), to the next size class, exactly
\* when the table has no bucket or the key is new and size() + 1 exceeds
\* bucket_count(); after n >= 1 insertions of distinct keys bucket_count()
\* is the smallest non-zero size class >= n.
C10_GrowthPolicy ==
    /\ [](size(set) >= 1 => bucket_count(set) = SmallestSizeClass(size(set)))
    /\ [][last'.op = "insert" /\ last'.res = "ok" =>
            LET grows == \/ bucket_count(set) = 0
                         \/ /\ last'.k \notin Elements(set)
                            /\ size(set) + 1 > bucket_count(set)
            IN  /\ grows => bucket_count(set') = table_sizes[get_size_index(set) + 1]
                /\ ~grows => bucket_count(set') = bucket_count(set)]_vars

\* Three distinct keys inserted: three buckets, three elements.
C10_Witness ==
    /\ last.op = "insert"
    /\ last.inserted
    /\ size(set) = 3
    /\ bucket_count(set) = 3
    /\ StoredCount(set) = 3

\* C11 (as stated): after insert(k), erase(returned iterator), insert(k),
\* size() is the same as before the first insert and find(k) is not end().
C11_RoundTripSizeAsBefore ==
    (last.op = "round_trip" /\ last.res = "ok") =>
        /\ size(set) = last.n
        /\ last.ret # end(set)

\* C11: after insert(k), erase(returned iterator), insert(k), size() is the
\* same as after the first insert -- one more than before the first insert
\* when k was not in the table, the same as before when it was -- and
\* find(k) returns an iterator to k, not end().
C11_RoundTrip ==
    (last.op = "round_trip" /\ last.res = "ok") =>
        /\ size(set) = last.n + (IF last.inserted THEN 1 ELSE 0)
        /\ size(set) = StoredCount(set)
        /\ last.ret # end(set)
        /\ last.ret \in ValidIterators(set)
        /\ dereference(set, last.ret) = last.k

\* A round trip with a key that was not in a table of two elements.
C11_Witness ==
    /\ last.op = "round_trip"
    /\ last.res = "ok"
    /\ last.inserted
    /\ last.n = 2
    /\ size(set) = 3

\* C12: find(k) returns an iterator that dereferences to k if and only if k
\* is in the table, and end() otherwise; on a table of zero buckets it
\* returns end() (no bucket index is computed); find changes no table.
C12_Find ==
    /\ [](last.op = "find" =>
             /\ IF last.k \in Elements(set)
                THEN /\ last.ret \in ValidIterators(set)
                     /\ dereference(set, last.ret) = last.k
                ELSE last.ret = end(set)
             /\ (bucket_count(set) = 0 => last.ret = end(set)))
    /\ [][last'.op = "find" => (set' = set /\ other' = other /\ status' = status)]_vars

\* find() of a key that is stored as the third node of its bucket.
C12_Witness ==
    /\ last.op = "find"
    /\ last.k \in Elements(set)
    /\ last.ret.m_it = 3

\* C13: in every state reachable through public operations, a forward
\* traversal from begin() reaches end() after visiting exactly size()
\* elements, each stored element exactly once, buckets in index order and
\* empty buckets skipped; begin() = end() exactly when no element is stored.
C13_Traversal ==
    \A t \in {set, other} :
        LET w == forward_traversal(t)
        IN  /\ w.stop = end(t)
            /\ Len(w.visited) = size(t)
            /\ [j \in 1..Len(w.visited) |-> dereference(t, w.visited[j])] = traversal(t)
            /\ \A i, j \in 1..Len(w.visited) : i < j =>
                   /\ w.visited[i] # w.visited[j]
                   /\ w.visited[i].m_idx <= w.visited[j].m_idx
            /\ (begin(t) = end(t)) <=> (StoredCount(t) = 0)

\* A traversal of three elements in two buckets that skips an empty bucket
\* before it reaches end().
C13_Witness ==
    /\ bucket_count(set) = 3
    /\ size(set) = 3
    /\ ~list_empty(set.m_container[1])
    /\ list_empty(set.m_container[2])
    /\ Len(forward_traversal(set).visited) = 3
    /\ forward_traversal(set).stop = end(set)

\* C14: bucket_count() is always an element of the size-class table (after
\* construction from a hint, insert, erase, rehash, clear, copy and move),
\* so that get_size_index() finds exactly one matching entry.
C14_BucketCountInSizeTable ==
    \A t \in {set, other} :
        /\ Cardinality({i \in DOMAIN table_sizes : table_sizes[i] = bucket_count(t)}) = 1
        /\ get_size_index(t) \in DOMAIN table_sizes
        /\ table_sizes[get_size_index(t)] = bucket_count(t)

\* A table constructed from a hint that is not a size class.
C14_Witness ==
    /\ last.op = "hash_set"
    /\ last.res = "ok"
    /\ last.n = 2
    /\ bucket_count(set) = 3

\* C15: _increase_size(), and so an insert() that needs growth, on a table
\* whose bucket count is the largest size class throws std::bad_alloc and
\* leaves the table unchanged; constructing a table, or rehash(), with a
\* requested bucket count greater than the largest size class throws
\* std::bad_alloc and leaves the existing table unchanged.
C15_CapacityCeiling ==
    [][/\ (last'.res = "bad_alloc" => (set' = set /\ other' = other))
       /\ (last'.op = "_increase_size" /\ bucket_count(set) = MaxBuckets)
              => last'.res = "bad_alloc"
       /\ (/\ last'.op = "insert"
           /\ bucket_count(set) = MaxBuckets
           /\ last'.k \notin Elements(set)
           /\ size(set) + 1 > bucket_count(set)
           /\ last'.res \notin {"hash_throws", "equal_throws"})
              => last'.res = "bad_alloc"
       /\ (last'.op \in {"rehash", "hash_set"} /\ last'.n > MaxBuckets)
              => last'.res = "bad_alloc"]_vars

\* An insert() of a new key into a full table of the largest size class.
C15_Witness ==
    /\ last.op = "insert"
    /\ last.res = "bad_alloc"
    /\ bucket_count(set) = MaxBuckets
    /\ size(set) = MaxBuckets
    /\ last.k \notin Elements(set)

\* C16: move construction and move assignment transfer all elements: the
\* destination has the source's former buckets, elements, size() and
\* bucket_count(); the moved-from table is an empty table of zero buckets
\* and zero elements, and an insert() into it succeeds.
C16_Move ==
    [][last'.op \in {"move_assign", "move_construct"} =>
          LET src == IF last'.inserted THEN set ELSE other
              dst_after == IF last'.inserted THEN other' ELSE set'
              src_after == IF last'.inserted THEN set' ELSE other'
          IN  /\ dst_after.m_container = src.m_container
              /\ traversal(dst_after) = traversal(src)
              /\ size(dst_after) = size(src)
              /\ bucket_count(dst_after) = bucket_count(src)
              /\ bucket_count(src_after) = 0
              /\ size(src_after) = 0
              /\ begin(src_after) = end(src_after)
              /\ \A k \in Keys :
                     LET r == insert(src_after, k, "none")
                     IN  /\ r.res = "ok"
                         /\ r.inserted
                         /\ size(r.t) = 1
                         /\ find(r.t, k) # end(r.t)]_vars

\* A move construction from a table of three elements in three buckets.
C16_Witness ==
    /\ last.op = "move_construct"
    /\ size(other) = 3
    /\ bucket_count(other) = 3
    /\ set = hash_set_default

\* The number of nodes of bucket b that hold key k.
CountIn(b, k) ==
    Cardinality({p \in 1..Len(b) : b[p] = k})

\* C17: _unique_insert(k, bucket_idx) adds k to bucket bucket_idx and
\* changes nothing else: no duplicate of k stops it, size() and
\* bucket_count() stay as they are whatever the load factor, and the other
\* buckets are untouched.  _update_size(n) makes size() equal to n, and no
\* other call that returns changes size().
C17_UniqueInsert ==
    [][/\ (last'.op = "_unique_insert" /\ last'.res = "ok") =>
              LET idx == last'.n
                  k == last'.k
              IN  /\ DOMAIN set'.m_container = DOMAIN set.m_container
                  /\ Len(set'.m_container[idx]) = Len(set.m_container[idx]) + 1
                  /\ \A j \in Keys : CountIn(set'.m_container[idx], j)
                         = CountIn(set.m_container[idx], j) + (IF j = k THEN 1 ELSE 0)
                  /\ last'.ret.m_idx = idx
                  /\ dereference(set', last'.ret) = k
                  /\ \A i \in DOMAIN set.m_container :
                         i # idx => set'.m_container[i] = set.m_container[i]
                  /\ size(set') = size(set)
                  /\ bucket_count(set') = bucket_count(set)
       /\ (last'.op = "_unique_insert" /\ last'.res # "ok") =>
              /\ set' = set
              /\ last'.k \in Elements(set) \/ last'.n # _bucket(set, last'.k)
       /\ last'.op = "_update_size" =>
              /\ size(set') = last'.n
              /\ set'.m_container = set.m_container
       /\ size(set') # size(set) => (last'.op = "_update_size" \/ Failed(last'.res))
       /\ other' = other]_vars

\* A _unique_insert() of a key that its bucket holds already, into a table
\* with more nodes than buckets, that leaves size() at zero.
C17_Witness ==
    /\ last.op = "_unique_insert"
    /\ last.res = "ok"
    /\ CountIn(set.m_container[last.n], last.k) = 2
    /\ StoredCount(set) > bucket_count(set)
    /\ size(set) = 0

\* The calls of the threads in sequence, in the order of the threads in
\* `order', on table t.
RECURSIVE SequentialInserts(_, _)
SequentialInserts(t, order) ==
    IF order = <<>> THEN t
    ELSE SequentialInserts(
             _unique_insert(t, threads[Head(order)].k, threads[Head(order)].bucket_idx).t,
             Tail(order))

Orders ==
    {o \in [1..NThreads -> Threads] : \A i, j \in 1..NThreads : i # j => o[i] # o[j]}

\* C18: threads that call _unique_insert() with pairwise disjoint
\* destination buckets, while no rehash, _increase_size or _update_size
\* runs: under every interleaving of their steps each bucket ends with its
\* prior contents plus exactly the keys inserted into it, no step writes the
\* element count, the bucket count or a bucket of another thread, and the
\* final table is the one that every sequential order of the calls gives.
C18_DisjointBuckets ==
    /\ [](~AllIdle =>
             /\ size(set) = size(forked)
             /\ bucket_count(set) = bucket_count(forked)
             /\ \A idx \in DOMAIN set.m_container :
                    LET done == {i \in Threads : threads[i].bucket_idx = idx
                                                  /\ threads[i].pc = "done"}
                    IN  /\ Len(set.m_container[idx]) = Len(forked.m_container[idx])
                                                        + Cardinality(done)
                        /\ \A k \in Keys : CountIn(set.m_container[idx], k)
                               = CountIn(forked.m_container[idx], k)
                                 + Cardinality({i \in done : threads[i].k = k}))
    /\ [](AllDone => \A o \in Orders : set = SequentialInserts(forked, o))
    /\ [][\A i \in Threads : (threads'[i] # threads[i] /\ threads[i].pc \notin {"idle", "done"}) =>
              /\ size(set') = size(set)
              /\ DOMAIN set'.m_container = DOMAIN set.m_container
              /\ \A idx \in DOMAIN set.m_container :
                     idx # threads[i].bucket_idx
                         => set'.m_container[idx] = set.m_container[idx]]_vars

\* The threads have finished their calls, one into an empty bucket and one
\* into a bucket with two nodes.
C18_Witness ==
    /\ AllDone
    /\ \E i, j \in Threads :
           /\ Len(forked.m_container[threads[i].bucket_idx]) = 0
           /\ Len(forked.m_container[threads[j].bucket_idx]) = 2
           /\ Len(set.m_container[threads[j].bucket_idx]) = 3
           /\ Len(set.m_container[threads[i].bucket_idx]) = 1

\* The exact quotient of a by b rounded toward zero: the q with
\* a = q * b + r, |r| < |b|, and r zero or of the sign of a.
ExactQuotient(a, b) ==
    CHOOSE q \in (-Abs(a))..Abs(a) :
        \E r \in (1 - Abs(b))..(Abs(b) - 1) :
            /\ a = q * b + r
            /\ r = 0 \/ ((r < 0) = (a < 0))

\* The exact integer result of an arithmetic operation.
Exact(op, a, b, c) ==
    CASE op = "+" -> a + b
      [] op = "-" -> a - b
      [] op = "*" -> a * b
      [] op = "/" -> ExactQuotient(a, b)
      [] op = "%" -> a - b * ExactQuotient(a, b)
      [] op = "multiply_accumulate" -> a + b * c

ExactCmp(op, a, b) ==
    CASE op = "==" -> a = b
      [] op = "!=" -> a # b
      [] op = "<" -> a < b
      [] op = ">" -> a > b
      [] op = "<=" -> a <= b
      [] op = ">=" -> a >= b

\* The hybrid integer of the value of n, promoted or not.
Storage(n, promoted) ==
    Operand(Value(n), promoted)

\* C19: a hybrid integer starts static with value zero; an arithmetic
\* operation (+, -, *, /, %, multiply_accumulate) whose operands are all
\* static leaves the result static when the exact result fits the static
\* capacity and makes it dynamic exactly when it does not; apart from
\* promote(), no other step moves the integer from static to dynamic, and no
\* arithmetic operation moves a dynamic integer to static, even when the
\* result would fit.
C19_StorageStateMachine ==
    LET op == arith.op
        before == arith.a
        arithmetic == op \in ArithOps \cup {"multiply_accumulate"}
        exact == Exact(op, Value(before), Value(arith.b), Value(arith.c))
        all_static == /\ is_static(before)
                      /\ is_static(arith.b)
                      /\ is_static(arith.c)
    IN  /\ op = "mp_integer" => (is_static(num) /\ Value(num) = 0)
        /\ (arithmetic /\ arith.res = "ok" /\ all_static) =>
               /\ is_static(num) <=> (Abs(exact) <= static_max)
               /\ Value(num) = exact
        /\ (op # "mp_integer" /\ is_static(before) /\ ~is_static(num)) =>
               \/ op = "promote"
               \/ arithmetic /\ arith.res = "ok" /\ Abs(exact) > static_max
               \/ op = "=" /\ Abs(Value(arith.b)) > static_max
        /\ (~is_static(before) /\ arithmetic) => ~is_static(num)
        /\ arith.res # "ok" => num = before

\* The largest static magnitude plus 1, from static operands: the result
\* is dynamic and has the exact value.
C19_Witness ==
    /\ arith.op = "+"
    /\ is_static(arith.a)
    /\ Value(arith.a) = static_max
    /\ is_static(arith.b)
    /\ Value(arith.b) = 1
    /\ ~is_static(num)
    /\ Value(num) = static_max + 1

\* C20: for every arithmetic operator the value of a op= b is the exact
\* integer result, and for every comparison operator a op b is the exact
\* comparison; the result is the same for the four combinations of a and b
\* promoted to dynamic storage or not before the operation.
C20_StaticDynamicEquivalence ==
    LET op == arith.op
        a == Value(arith.a)
        b == Value(arith.b)
        exact == Exact(op, a, b, 0)
        exact_cmp == ExactCmp(op, a, b)
    IN  /\ (op \in ArithOps /\ arith.res = "ok") =>
               /\ Value(num) = exact
               /\ \A pa, pb \in BOOLEAN :
                      Value(in_place(op, Storage(arith.a, pa), Storage(arith.b, pb)).n)
                          = exact
        /\ op \in CmpOps =>
               /\ arith.ret = exact_cmp
               /\ \A pa, pb \in BOOLEAN :
                      cmp_op(op, Storage(arith.a, pa), Storage(arith.b, pb)) = exact_cmp

\* A remainder of a negative static dividend by a positive static divisor.
C20_Witness ==
    /\ arith.op = "%"
    /\ arith.res = "ok"
    /\ Value(arith.a) = -3
    /\ is_static(arith.b)
    /\ Value(arith.b) = 2
    /\ is_static(num)
    /\ Value(num) = -1

\* The quotient and the remainder of one form of the operators, as values:
\* the result of the form on the left operand a and the divisor b.
Quotient(form, a, b) ==
    CASE form = "in_place" -> Value(in_place("/", a, b).n)
      [] form = "binary" -> Value(binary("/", a, b).n)
      [] form = "in_place_int" -> Value(in_place_int("/", a, Value(b)).n)
      [] form = "binary_int" -> Value(binary_int("/", a, Value(b)).n)
      [] form = "int_in_place" -> int_in_place("/", Value(a), b).x
      [] form = "int_binary" -> Value(int_binary("/", Value(a), b).n)

Remainder(form, a, b) ==
    CASE form = "in_place" -> Value(in_place("%", a, b).n)
      [] form = "binary" -> Value(binary("%", a, b).n)
      [] form = "in_place_int" -> Value(in_place_int("%", a, Value(b)).n)
      [] form = "binary_int" -> Value(binary_int("%", a, Value(b)).n)
      [] form = "int_in_place" -> int_in_place("%", Value(a), b).x
      [] form = "int_binary" -> Value(int_binary("%", Value(a), b).n)

\* The value that the last operation produced: the left operand after an
\* in-place operation, the returned value of the other forms.
Produced ==
    CASE arith.form \in {"in_place", "in_place_int"} -> Value(num)
      [] arith.form = "int_in_place" -> arith.ret
      [] OTHER -> Value(arith.ret)

\* a / b and a % b for native a and b, as hybrid integers.
Div(a, b) ==
    Value(binary("/", mp_integer(a), mp_integer(b)).n)

Mod(a, b) ==
    Value(binary("%", mp_integer(a), mp_integer(b)).n)

\* C21: division and modulo of hybrid integers truncate toward zero: for
\* all a and all non-zero b, (a / b) * b + (a % b) = a, |a % b| < |b|, and
\* a % b is zero or has the sign of a, in the binary and in the in-place
\* forms; 5/2 = 2, -5/2 = -2, 7/-2 = -3, 5%2 = 1, -5%2 = -1, 7%-2 = 1.
C21_TruncatingDivision ==
    LET a == Value(arith.a)
        b == Value(arith.b)
        q == Quotient(arith.form, arith.a, arith.b)
        r == Remainder(arith.form, arith.a, arith.b)
    IN  /\ (arith.op \in DivOps /\ b # 0) =>
               /\ arith.res = "ok"
               /\ Produced = IF arith.op = "/" THEN q ELSE r
               /\ q * b + r = a
               /\ Abs(r) < Abs(b)
               /\ r = 0 \/ ((r < 0) = (a < 0))
        /\ Div(5, 2) = 2 /\ Div(-5, 2) = -2 /\ Div(7, -2) = -3
        /\ Mod(5, 2) = 1 /\ Mod(-5, 2) = -1 /\ Mod(7, -2) = 1

\* -5 / 2 in the binary form, with a dividend in dynamic storage.
C21_Witness ==
    /\ arith.form = "binary"
    /\ arith.op = "/"
    /\ Value(arith.a) = -5
    /\ Value(arith.b) = 2
    /\ arith.res = "ok"
    /\ Value(arith.ret) = -2

\* C22: division or modulo by zero, in the in-place and binary forms, for
\* hybrid operands and for mixed hybrid and native operands in either
\* order, fails with the zero-division kind, and the failed in-place
\* operation leaves its left operand unchanged; a non-zero divisor does not
\* fail that way.
C22_ZeroDivision ==
    arith.op \in DivOps =>
        IF Value(arith.b) = 0
        THEN /\ arith.res = "zero_division_error"
             /\ arith.form \in {"in_place", "in_place_int"} => num = arith.a
             /\ arith.form = "int_in_place" => arith.ret = Value(arith.a)
        ELSE arith.res # "zero_division_error"

\* n1 = 1; n1 /= 0 fails and n1 is still 1.
C22_Witness ==
    /\ arith.form = "in_place_int"
    /\ arith.op = "/"
    /\ Value(arith.a) = 1
    /\ Value(arith.b) = 0
    /\ arith.res = "zero_division_error"
    /\ Value(num) = 1

\* The exact power base^e for a natural e, by e multiplications.
RECURSIVE ExactPower(_, _)
ExactPower(base, e) ==
    IF e = 0 THEN 1 ELSE base * ExactPower(base, e - 1)

C24_Tuning ==
    /\ 16 <= s_mult_block_size /\ s_mult_block_size <= 4096
    /\ s_mult_block_size \in {256} \cup passed.sizes
    /\ s_parallel_memory_set \in {TRUE} \cup passed.flags
    /\ tuned.op = "tuning" => (s_mult_block_size = 256 /\ s_parallel_memory_set)
    /\ tuned.op = "set_multiplication_block_size" =>
           IF 16 <= tuned.size /\ tuned.size <= 4096
           THEN tuned.res = "ok" /\ s_mult_block_size = tuned.size
           ELSE tuned.res = "invalid_argument" /\ s_mult_block_size = tuned.before
    /\ tuned.op = "reset_multiplication_block_size" => s_mult_block_size = 256
    /\ tuned.op = "get_multiplication_block_size" =>
           /\ tuned.ret \in {256} \cup passed.sizes
           /\ tuned.ret = s_mult_block_size
    /\ tuned.op = "set_parallel_memory_set" => s_parallel_memory_set = tuned.flag
    /\ tuned.op = "reset_parallel_memory_set" => s_parallel_memory_set
    /\ tuned.op = "get_parallel_memory_set" =>
           tuned.ret_flag \in {TRUE} \cup passed.flags

\* A set of a size above the limit fails after another thread has stored
\* the largest size, which stays.
C24_Witness ==
    /\ tuned.op = "set_multiplication_block_size"
    /\ tuned.size = 4096 + Margin
    /\ tuned.res = "invalid_argument"
    /\ tuned.thread = 2
    /\ s_mult_block_size = 4096
    /\ passed.sizes = {4096}

\* C25: erasing the head (array-embedded) node of a bucket: if it is the
\* only node the bucket becomes empty and bucket_count() is unchanged;
\* otherwise the payload of the former second node becomes the head
\* payload, the second heap node is released, the head links to the former
\* third node, the remaining elements keep their relative order, exactly
\* one heap node fewer exists and every other element of the bucket is
\* still reachable exactly once.
C25_EraseHead ==
    [][(last'.op = "erase" /\ last'.it.m_it = 1) =>
           LET idx == last'.it.m_idx
               b == set.m_container[idx]
               after == set'.m_container[idx]
               l == list_nodes(b)
               erased == _erase_head(l)
           IN  /\ bucket_count(set') = bucket_count(set)
               /\ after = list_keys(erased)
               /\ Len(b) = 1 =>
                      /\ after = <<>>
                      /\ erased.m_node.m_next = nullptr
                      /\ DOMAIN erased.heap = {}
               /\ Len(b) > 1 =>
                      /\ after[1] = b[2]
                      /\ after = Tail(b)
                      /\ erased.m_node.m_storage = l.heap[l.m_node.m_next].m_storage
                      /\ erased.m_node.m_next = l.heap[l.m_node.m_next].m_next
                      /\ DOMAIN erased.heap = DOMAIN l.heap \ {l.m_node.m_next}
                      /\ Cardinality(DOMAIN erased.heap) = Cardinality(DOMAIN l.heap) - 1
                      /\ Len(after) - 1 = Cardinality(DOMAIN erased.heap)
                      /\ \A k \in Keys : k # b[1] => CountIn(after, k) = CountIn(b, k)
                      /\ CountIn(after, b[1]) = 0
      ]_vars

\* The head of a bucket of three nodes has been erased: the bucket holds
\* the former second and third elements.
C25_Witness ==
    /\ last.op = "erase"
    /\ last.it.m_it = 1
    /\ Len(set.m_container[last.it.m_idx]) = 2
    /\ size(set) = 2

\* The chain b without its node at position p.
Without(b, p) ==
    SubSeq(b, 1, p - 1) \o SubSeq(b, p + 1, Len(b))

\* C26: an insert() that does not trigger a rehash, and every erase(),
\* changes only the affected bucket: the contents and node order of every
\* other bucket are unchanged, bucket_count() is unchanged, and within the
\* affected bucket an insert places the new key as the first node of an
\* empty bucket or else as the second node, directly after the head, and
\* leaves the other nodes in their prior order; an erase removes the one
\* node and keeps the order of the others.
C26_AffectedBucketOnly ==
    [][/\ (/\ last'.op = "insert"
            /\ last'.res = "ok"
            /\ bucket_count(set) # 0
            /\ (~last'.inserted \/ ~load_factor_exceeded(set))) =>
               LET idx == _bucket(set, last'.k)
                   b == set.m_container[idx]
                   after == set'.m_container[idx]
               IN  /\ bucket_count(set') = bucket_count(set)
                   /\ \A i \in DOMAIN set.m_container :
                          i # idx => set'.m_container[i] = set.m_container[i]
                   /\ ~last'.inserted => after = b
                   /\ (last'.inserted /\ b = <<>>) => after = <<last'.k>>
                   /\ (last'.inserted /\ b # <<>>) =>
                          /\ after[1] = b[1]
                          /\ after[2] = last'.k
                          /\ Without(after, 2) = b
                   /\ last'.inserted => last'.ret = Iterator(idx, IF b = <<>> THEN 1 ELSE 2)
       /\ last'.op = "erase" =>
               LET idx == last'.it.m_idx
                   b == set.m_container[idx]
                   after == set'.m_container[idx]
               IN  /\ bucket_count(set') = bucket_count(set)
                   /\ \A i \in DOMAIN set.m_container :
                          i # idx => set'.m_container[i] = set.m_container[i]
                   /\ after = Without(b, last'.it.m_it)
      ]_vars

\* An insert without a rehash into a bucket of two nodes: the new key is
\* the second of three nodes.
C26_Witness ==
    /\ last.op = "insert"
    /\ last.inserted
    /\ last.ret.m_it = 2
    /\ Len(set.m_container[last.ret.m_idx]) = 3
    /\ set.m_container[last.ret.m_idx][2] = last.k

\* C27: the loop `it = begin(); while it != end(): if pred(*it) then
\* it = erase(it) else ++it', run on any table and for any predicate,
\* terminates, and afterwards the table contains exactly the former elements
\* that do not satisfy pred, size() has dropped by the number of erased
\* elements, and bucket_count() is unchanged.
C27_EraseWhileIterating ==
    /\ [](loop.pc = "done" =>
             /\ Elements(set) = Elements(loop.start) \ loop.pred
             /\ StoredCount(set) = Cardinality(Elements(set))
             /\ size(set) = size(loop.start)
                               - Cardinality(Elements(loop.start) \cap loop.pred)
             /\ bucket_count(set) = bucket_count(loop.start))
    /\ (loop.pc = "running" ~> loop.pc = "done")

\* The loop has drained a table of three elements with the predicate that
\* is always true.
C27_Witness ==
    /\ loop.pc = "done"
    /\ loop.pred = Keys
    /\ size(loop.start) = 3
    /\ size(set) = 0
    /\ bucket_count(set) = bucket_count(loop.start)

\* insert(k) for the keys of a sequence, in its order.
RECURSIVE Inserts(_, _)
Inserts(t, keys) ==
    IF keys = <<>> THEN t ELSE Inserts(insert(t, Head(keys), "none").t, Tail(keys))

\* The invariants of a table: placement, no duplicates, size() equal to
\* the number of stored elements, load factor at most 1.
Consistent(t) ==
    /\ \A i \in DOMAIN t.m_container :
           \A p \in 1..Len(t.m_container[i]) : _bucket(t, t.m_container[i][p]) = i
    /\ StoredCount(t) = Cardinality(Elements(t))
    /\ size(t) = StoredCount(t)
    /\ bucket_count(t) > 0 => size(t) <= bucket_count(t) * get_max_load_factor
    /\ bucket_count(t) = 0 => size(t) = 0

\* The sequences of m pairwise distinct keys that are not in the table.
AbsentKeys(t, m) ==
    {q \in [1..m -> Keys \ Elements(t)] : \A i, j \in 1..m : i # j => q[i] # q[j]}

\* C28: the bulk load through the low-level interface: from a consistent
\* table with size() = s, pre-sizing with rehash or _increase_size so that
\* bucket_count() >= s + m, then _unique_insert(k, _bucket(k)) for m
\* pairwise distinct keys that are not present, then _update_size(s + m),
\* gives a table that satisfies every table invariant and holds the same
\* set of elements and the same size() as insert(k) for each of the keys.
C28_BulkLoad ==
    [][(last'.op = "bulk_load" /\ last'.res = "ok" /\ Consistent(set)) =>
           \A keys \in AbsentKeys(set, last'.n), how \in {"rehash", "_increase_size"} :
               (set' = bulk_load(set, keys, how).t /\ BulkLoad(keys, how)) =>
                   /\ bucket_count(set') >= size(set) + Len(keys)
                   /\ Consistent(set')
                   /\ Elements(set') = Elements(set) \cup {keys[i] : i \in 1..Len(keys)}
                   /\ \A inserted \in {Inserts(set, keys)} :
                          /\ Elements(set') = Elements(inserted)
                          /\ size(set') = size(inserted)
      ]_vars

\* A bulk load of two keys into a table of one element: the table was
\* pre-sized for three elements, and two of them share a bucket.
C28_Witness ==
    /\ last.op = "bulk_load"
    /\ last.res = "ok"
    /\ last.n = 2
    /\ size(set) = 3
    /\ StoredCount(set) = 3
    /\ bucket_count(set) >= 3
    /\ \E i \in DOMAIN set.m_container : Len(set.m_container[i]) >= 2

\* C29: a.multiply_accumulate(b, c) sets a to exactly a_old + b * c, in
\* every combination of static and dynamic operands, when the product
\* overflows the static capacity, when only the final addition overflows it
\* (a is then dynamic), and when b or c or both are a itself, the operand
\* values being those before a is promoted or modified; b and c are left
\* unchanged when they are not a.
C29_MultiplyAccumulate ==
    arith.op = "multiply_accumulate" =>
        LET a_old == Value(arith.a)
            b == IF arith.ret.x = "a" THEN a_old ELSE Value(arith.b)
            c == IF arith.ret.y = "a" THEN a_old ELSE Value(arith.c)
            all_static == is_static(arith.a) /\ is_static(arith.b) /\ is_static(arith.c)
        IN  /\ Value(num) = a_old + b * c
            /\ (all_static /\ Abs(a_old + b * c) > static_max) => ~is_static(num)
            /\ (all_static /\ Abs(a_old + b * c) <= static_max) => is_static(num)
            /\ arith.ret.x = "b" => arith.ret.b = arith.b
            /\ arith.ret.y = "c" => arith.ret.c = arith.c

\* a.multiply_accumulate(a, a) from a static a whose square overflows the
\* static capacity.
C29_Witness ==
    /\ arith.op = "multiply_accumulate"
    /\ arith.ret.x = "a"
    /\ arith.ret.y = "a"
    /\ is_static(arith.a)
    /\ Value(arith.a) = 2
    /\ ~is_static(num)
    /\ Value(num) = 6

\* The n low bits of x, least significant first.
RECURSIVE Bits(_, _)
Bits(x, n) ==
    IF n = 0 THEN <<>> ELSE <<x % 2>> \o Bits(x \div 2, n - 1)

\* The bit stream of the low `width' bits of each limb, first limb first.
RECURSIVE BitStream(_, _)
BitStream(limbs, width) ==
    IF limbs = <<>> THEN <<>>
    ELSE Bits(Head(limbs), width) \o BitStream(Tail(limbs), width)

\* The stream of the input of the last call, and the bits of its result.
db_in ==
    BitStream(read.input_vector, digits(read.in_type) - read.ibits)

db_out ==
    Bits(read.ret, digits(read.out_type))

\* C30: read_uint<Out, InputIgnoreBits, OutputIgnoreBits>(limbs, count,
\* index) returns the index-th chunk of the bit stream formed by
\* concatenating, least significant first, the low (bits(In) -
\* InputIgnoreBits) bits of each limb: the chunk is (bits(Out) -
\* OutputIgnoreBits) bits wide, starts at stream bit index * (bits(Out) -
\* OutputIgnoreBits), is zero-padded past the end of the input, and the top
\* OutputIgnoreBits bits of the result are zero, for limbs narrower than,
\* equal to and wider than the output type.
C30_ReadUint ==
    read.op = "read_uint" =>
        LET width == digits(read.out_type) - read.obits
            start == read.index * width
        IN  /\ read.ret \in 0..(Pow2(digits(read.out_type)) - 1)
            /\ \A j \in 1..digits(read.out_type) :
                   db_out[j] = IF j <= width /\ start + j <= Len(db_in)
                               THEN db_in[start + j] ELSE 0

\* A chunk other than the first that has a set bit and that ends past the
\* input, read from limbs whose ignored bits are set.
C30_Witness ==
    /\ read.op = "read_uint"
    /\ read.ibits > 0
    /\ \A i \in 1..Len(read.input_vector) :
           read.input_vector[i] >= Pow2(digits(read.in_type) - read.ibits)
    /\ read.index > 0
    /\ read.ret # 0
    /\ (read.index + 1) * (digits(read.out_type) - read.obits) > Len(db_in)

====
